---- MODULE Spec2Model ----
(***************************************************************************)
(* A model of the opencoin node's BFT engine (pkg/consensus/hotstuff.go,   *)
(* qc.go), its DPoS validator registry (pkg/consensus/dpos.go) and the     *)
(* part of the state engine (pkg/state) that block finalization drives.    *)
(*                                                                         *)
(* One replica is modelled.  Its callers (the network, the round timer,    *)
(* the registry's users) are the environment: every exported operation     *)
(* may be called at any time with any input of the bounded input sets.     *)
(* The variable `last` observes the last call: which operation ran, the    *)
(* error it returned ("" for nil) and the value it returned.               *)
(***************************************************************************)
EXTENDS Integers, Sequences, FiniteSets, TLC

VARIABLES
    dpos,           \* DPoS.validators: address -> Validator
    validatorSet,   \* Engine.validatorSet: the engine's snapshot
    height,         \* Engine.height: last finalized height
    round,          \* Engine.round
    lastFinalized,  \* Engine.lastFinalized
    votes,          \* Engine.votes: block hash -> (address -> PrecommitVote)
    store,          \* the durable store: accounts, timestamp window, block index
    dag,            \* the state-versioning DAG
    contracts,      \* the contract engine: deployed code and cached estimates
    mempool,        \* Mempool: its coster and pool (sender -> nonce-ordered queue)
    mu,             \* Engine.mu: the call holding it and what it has called out to
    network,        \* Engine.network: None for nil
    last            \* observation of the last call: [op, arg, old, err, out]

vars == <<dpos, validatorSet, height, round, lastFinalized, votes, store, dag, contracts,
          mempool, mu, network, last>>

engineVars == <<validatorSet, height, round, lastFinalized, votes>>

-----------------------------------------------------------------------------
(* Bounds of the model. *)

\* SelectForBlock is called with caps up to this one.
MaxBlockTxs == 3
\* OnTimeout and view changes are explored up to this round.
MaxRound == 2
\* Rounds of the votes the vote-collection specification explores.
MaxVoteRound == 1
\* Delegate is explored while the stake delegated to a validator stays within
\* this amount.
MaxDelegated == 1
\* FinalizeBlock is explored while the block index holds fewer blocks.
MaxBlocks == 1
\* Rounds and heights the leader-selection specification draws from.
MaxLeaderRound == 5
MaxLeaderHeight == 2
\* The state manager is explored up to this many stored blocks.
MaxStateBlocks == 2
\* PruneNonFinal runs at most this often on a DAG.
MaxPrunes == 1

\* DPoS configuration (node.go hands cfg.Consensus.MinStake and
\* cfg.Consensus.MaxValidators to NewDPoS).  Stakes and powers of the model
\* are counted in units of the minimum stake, and the registry holds at most
\* the four addresses of the model.
MinStake == 1
MaxValidators == 4
\* rc.Params.WindowN of the genesis file: length of the timestamp window.
WindowN == 2

-----------------------------------------------------------------------------
(* Values. *)

\* Addresses are compared as byte strings; AddrOrder lists the addresses of
\* the model in ascending byte order.
AddrOrder == <<"v1", "v2", "v3", "v4">>

Addresses == {AddrOrder[i] : i \in 1..Len(AddrOrder)}

AddrRank(a) == CHOOSE i \in 1..Len(AddrOrder) : AddrOrder[i] = a

AddrLess(a, b) == AddrRank(a) < AddrRank(b)

\* The local validator of the modelled replica (Engine.validatorAddr).
validatorAddr == "v1"

\* A nil pointer, an empty byte slice, a value that is absent.
None == <<>>

\* types.Hash{}: 32 zero bytes.
ZeroHash == <<"zero">>

\* SHA-256 is modelled as an injective function of the bytes it digests:
\* the digest is the tagged input.
HashBytes(data) == <<"sha256", data>>

\* The consensus public key registered for the validator at address a, and
\* the key pair's signing operation.  A signature verifies under a public key
\* exactly when it was made with that key over the same bytes.
PubKeyOf(a) == <<"pk", a>>

Sign(pk, msg) == <<"sig", pk, msg>>

VerifySig(msg, sig, pk) == sig = Sign(pk, msg)

\* The genesis file's time and wall-clock values that time.Now().Unix() may
\* return after it, in seconds.
GenesisTime == 100
Timestamps == {101, 102}
\* Block timestamps offered to the state manager: inside the skew and
\* beyond it.
StateTimestamps == {101, 140}

FirstStateTimestamp == CHOOSE t \in StateTimestamps : \A u \in StateTimestamps : t <= u

\* The largest value of the code's unsigned integers, ^uint64(0).  The width
\* is narrowed from 64 to 16 bits, so that the products and sums the code
\* forms wrap around inside the explored values.
MaxUint == 65535

\* Unsigned arithmetic of the code's width: the result modulo 2^width.
U64(x) == x % (MaxUint + 1)

\* The largest value of the code's signed integers, narrowed like MaxUint.
MaxInt == 32767

MinInt == -MaxInt - 1

\* Signed arithmetic of the code's width: the result wrapped into
\* MinInt..MaxInt.
I64(x) == ((x - MinInt) % (MaxUint + 1)) + MinInt

RECURSIVE SumFun(_, _)
SumFun(f, S) ==
    IF S = {} THEN 0
    ELSE LET x == CHOOSE y \in S : TRUE IN f[x] + SumFun(f, S \ {x})

-----------------------------------------------------------------------------
(* Canonical encodings (pkg/encoding/protobuf.go): the fields in ascending   *)
(* tag order.                                                              *)

MarshalBlock(b) ==
    <<"Block", b.Height, b.PrevHash, b.StateRoot, b.Timestamp, b.Proposer,
      b.Transactions, b.ValidatorSigs>>

HashBlock(b) == HashBytes(MarshalBlock(b))

mustHashBlock(b) == HashBlock(b)

MarshalProposal(p) ==
    <<"Proposal", MarshalBlock(p.Block), p.Round, p.ProposerSig>>

MarshalPrecommitVote(v) ==
    <<"PrecommitVote", v.BlockHash, v.Height, v.Round, v.Validator, v.Signature>>

MarshalViewChange(vc) ==
    <<"ViewChange", vc.Height, vc.Round, vc.Validator, vc.Signature>>

\* Signing bytes: the message with its own signature cleared; a proposal's
\* block also loses its validator signatures.
ProposalSignBytes(p) ==
    MarshalProposal([p EXCEPT !.ProposerSig = None,
                              !.Block = [p.Block EXCEPT !.ValidatorSigs = <<>>]])

PrecommitSignBytes(v) == MarshalPrecommitVote([v EXCEPT !.Signature = None])

ViewChangeSignBytes(vc) == MarshalViewChange([vc EXCEPT !.Signature = None])

-----------------------------------------------------------------------------
(* The DPoS manager. *)

NewValidator(address, publicKey, stake, commission) ==
    [Address |-> address, PublicKey |-> publicKey, Power |-> stake,
     Stake |-> stake, Delegations |-> [d \in {} |-> 0],
     Commission |-> commission, Index |-> 0, JailedUntilEpoch |-> 0]

\* The error RegisterValidator returns on registry d, "" when it succeeds.
RegisterValidatorErr(d, address, stake) ==
    IF stake < MinStake THEN "stake below minimum"
    ELSE IF address \in DOMAIN d THEN "validator already registered"
    ELSE IF Cardinality(DOMAIN d) >= MaxValidators THEN "max validators reached"
    ELSE ""

RegisterValidatorIn(d, address, publicKey, stake, commission) ==
    IF RegisterValidatorErr(d, address, stake) # "" THEN d
    ELSE [a \in DOMAIN d \cup {address} |->
            IF a = address
            THEN NewValidator(address, publicKey, stake, commission)
            ELSE d[a]]

\* sort.Slice's order in ValidatorSet: power descending, then address ascending.
ValidatorBefore(x, y) ==
    IF x.Power = y.Power THEN AddrLess(x.Address, y.Address)
    ELSE x.Power > y.Power

RECURSIVE SortValidators(_)
SortValidators(S) ==
    IF S = {} THEN <<>>
    ELSE LET first == CHOOSE x \in S : \A y \in S \ {x} : ValidatorBefore(x, y)
         IN <<first>> \o SortValidators(S \ {first})

\* DPoS.ValidatorSet: copies of the validators in canonical order, with
\* positional indices (0-based, as in the code), the index map and the total.
\* The copy's Delegations field aliases the registry's map and is read by no
\* engine code: the snapshot leaves it out.
ValidatorSet(d) ==
    LET sorted == SortValidators({d[a] : a \in DOMAIN d})
        indexed == [i \in 1..Len(sorted) |->
                      [Address |-> sorted[i].Address,
                       PublicKey |-> sorted[i].PublicKey,
                       Power |-> sorted[i].Power,
                       Stake |-> sorted[i].Stake,
                       Commission |-> sorted[i].Commission,
                       JailedUntilEpoch |-> sorted[i].JailedUntilEpoch,
                       Index |-> i - 1]]
    IN [Validators |-> indexed,
        TotalPower |-> U64(SumFun([a \in DOMAIN d |-> d[a].Power], DOMAIN d)),
        IndexByAddr |-> [a \in DOMAIN d |->
                           (CHOOSE i \in 1..Len(indexed) : indexed[i].Address = a) - 1]]

-----------------------------------------------------------------------------
(* The durable store, the state root and the state DAG. *)

Put(f, k, v) == [x \in DOMAIN f \cup {k} |-> IF x = k THEN v ELSE f[x]]

EmptyMap == [x \in {} |-> None]

\* The element of a one-element set: {e(x) : x \in {v}} names the value v
\* once for the whole of e.
The(S) == CHOOSE x \in S : TRUE

\* marshalAccount: the account's fields in tag order.
marshalAccount(acct) ==
    <<"Account", acct.Address, acct.Balance, acct.Nonce, acct.Stake, acct.RC,
      acct.RCMax, acct.LastRCEffectiveTime, acct.Code, acct.PubKey>>

RECURSIVE merkleLevel(_)
merkleLevel(nodes) ==
    IF nodes = <<>> THEN <<>>
    ELSE LET left == nodes[1]
             right == IF Len(nodes) >= 2 THEN nodes[2] ELSE left
             rest == IF Len(nodes) >= 2 THEN Tail(Tail(nodes)) ELSE <<>>
         IN <<HashBytes(<<1, left, right>>)>> \o merkleLevel(rest)

RECURSIVE merkleRoot(_)
merkleRoot(leaves) ==
    IF Len(leaves) = 1 THEN leaves[1] ELSE merkleRoot(merkleLevel(leaves))

RECURSIVE SortAddrs(_)
SortAddrs(S) ==
    IF S = {} THEN <<>>
    ELSE LET first == CHOOSE x \in S : \A y \in S \ {x} : AddrLess(x, y)
         IN <<first>> \o SortAddrs(S \ {first})

\* The Merkle root over the account entries in ascending key order; the zero
\* hash for an empty state.
ComputeStateRoot(accounts) ==
    LET keys == SortAddrs(DOMAIN accounts)
        leaves == [i \in 1..Len(keys) |->
                     HashBytes(<<0, keys[i], marshalAccount(accounts[keys[i]])>>)]
    IN IF Len(leaves) = 0 THEN ZeroHash ELSE merkleRoot(leaves)

-----------------------------------------------------------------------------
(* Resource credits (pkg/rc/rc.go) under the parameters of DefaultGenesis. *)

Alpha == 1000
Beta == 1
CSize == 1
CCompute == 1
CStorage == 50
MaxSkewSec == 30

\* Ascending order of a sequence of timestamps.
RECURSIVE SortInts(_)
SortInts(ts) ==
    IF ts = <<>> THEN <<>>
    ELSE LET i == CHOOSE k \in 1..Len(ts) : \A l \in 1..Len(ts) : ts[k] <= ts[l]
         IN <<ts[i]>> \o SortInts(SubSeq(ts, 1, i - 1) \o SubSeq(ts, i + 1, Len(ts)))

\* rc.Median: the lower middle for an even count, 0 for none.
Median(timestamps) ==
    IF Len(timestamps) = 0 THEN 0
    ELSE LET cp == SortInts(timestamps)
             m == Len(cp) \div 2
         IN IF Len(cp) % 2 = 1 THEN cp[m + 1] ELSE cp[m]

\* rc.EffectiveTime: the block timestamp clamped around the window's median;
\* min and max are sums of the code's signed integers.
EffectiveTime(blockTimestamp, lastTimestamps, maxSkew) ==
    IF Len(lastTimestamps) = 0 THEN blockTimestamp
    ELSE LET median == Median(lastTimestamps)
             min == I64(median - maxSkew)
             max == I64(median + maxSkew)
         IN IF blockTimestamp < min THEN min
            ELSE IF blockTimestamp > max THEN max
            ELSE blockTimestamp

\* Params.RCMax: alpha * stake, saturating.
ParamsRCMax(p, stake) ==
    IF stake = 0 \/ p.Alpha = 0 THEN 0
    ELSE IF stake > MaxUint \div p.Alpha THEN MaxUint
    ELSE p.Alpha * stake

\* Params.Regen: [rc, time] after regenerating over the elapsed effective
\* time; dt is a difference of the code's signed integers.
ParamsRegen(p, currentRC, stake, lastEffectiveTime, newEffectiveTime) ==
    IF stake = 0 THEN [rc |-> 0, time |-> newEffectiveTime]
    ELSE LET diff == I64(newEffectiveTime - lastEffectiveTime)
             dt == IF diff < 0 THEN 0 ELSE diff
             byBeta == IF p.Beta = 0 THEN dt
                       ELSE IF dt > MaxUint \div p.Beta THEN MaxUint ELSE dt * p.Beta
             regen == IF p.Beta = 0 THEN dt
                      ELSE IF byBeta > MaxUint \div stake THEN MaxUint
                      ELSE byBeta * stake
             rc == IF regen > 0
                   THEN IF currentRC > MaxUint - regen THEN MaxUint
                        ELSE currentRC + regen
                   ELSE currentRC
         IN [rc |-> IF rc > ParamsRCMax(p, stake) THEN ParamsRCMax(p, stake) ELSE rc,
             time |-> newEffectiveTime]

\* State.rcParams: the parameters of the genesis file.
rcParams == [Alpha |-> Alpha, Beta |-> Beta]

\* RCMax and Regen on the state's parameters.
RCMax(stake) == ParamsRCMax(rcParams, stake)

Regen(currentRC, stake, lastEffectiveTime, newEffectiveTime) ==
    ParamsRegen(rcParams, currentRC, stake, lastEffectiveTime, newEffectiveTime)

\* The closure add of Params.Cost: total + a * b, saturating.
AddCost(total, a, b) ==
    IF a = 0 \/ b = 0 THEN total
    ELSE IF b > MaxUint \div a THEN MaxUint
    ELSE IF total > MaxUint - (a * b) THEN MaxUint
    ELSE total + a * b

\* Params.Cost
Cost(sizeBytes, wasmInstructions, stateWrites) ==
    AddCost(AddCost(AddCost(0, CSize, sizeBytes), CCompute, wasmInstructions),
            CStorage, stateWrites)

-----------------------------------------------------------------------------
(* Transactions and their payload envelope (pkg/tx, pkg/encoding). *)

\* EncodePayload: the variant's fields and the sender's public key.
EncodePayload(p, senderPubKey) ==
    <<"TransactionPayload", p.Type, p.To, p.Amount, p.Code, senderPubKey>>

\* DecodePayload: [err, Payload, SenderPubKey]; the empty payload is an error.
DecodePayload(payload) ==
    IF payload = <<>>
    THEN [err |-> "empty payload", Payload |-> None, SenderPubKey |-> None]
    ELSE [err |-> "",
          Payload |-> [Type |-> payload[2], To |-> payload[3],
                       Amount |-> payload[4], Code |-> payload[5]],
          SenderPubKey |-> payload[6]]

MarshalTransaction(txn) ==
    <<"Transaction", txn.From, txn.To, txn.Nonce, txn.Payload, txn.Signature>>

\* tx.SigningBytes: the encoding with the signature cleared.
SigningBytes(txn) == MarshalTransaction([txn EXCEPT !.Signature = None])

\* The length of the encoded transaction: its fields and those of its payload.
SizeBytes(txn) == Len(MarshalTransaction(txn)) + Len(txn.Payload)

\* crypto.AddressFromPubKey
AddressFromPubKey(pubKey) == pubKey[2]

\* ResolveSenderPubKey without the rules of the first spend: whatever key
\* the envelope carries is taken and registered.
ResolveSenderPubKey_AnyKey(txn, stored, payloadPubKey) ==
    IF payloadPubKey = None
    THEN [err |-> "", pubKey |-> stored, register |-> FALSE]
    ELSE [err |-> "", pubKey |-> payloadPubKey, register |-> TRUE]

\* tx.ResolveSenderPubKey: [err, pubKey, register].
ResolveSenderPubKey(txn, stored, payloadPubKey) ==
    LET fail(e) == [err |-> e, pubKey |-> None, register |-> FALSE]
    IN IF stored = None
       THEN IF payloadPubKey = None
            THEN fail("sender_pubkey required for first spend")
            ELSE IF AddressFromPubKey(payloadPubKey) # txn.From
            THEN fail("sender address mismatch")
            ELSE [err |-> "", pubKey |-> payloadPubKey, register |-> TRUE]
       ELSE IF payloadPubKey # None /\ payloadPubKey # stored
            THEN fail("sender_pubkey does not match registered key")
            ELSE IF AddressFromPubKey(stored) # txn.From
            THEN fail("sender address mismatch")
            ELSE [err |-> "", pubKey |-> stored, register |-> FALSE]

\* tx.VerifySignature: the error, "" for nil.
VerifySignature(txn, pubKey) ==
    IF VerifySig(SigningBytes(txn), txn.Signature, pubKey) THEN ""
    ELSE "invalid signature"

-----------------------------------------------------------------------------
(* The contract engine (package contracts). *)

\* NewContractEngine: no contract and no estimate.  The maps compiled and
\* modules hold no entry at any time: compiled is never made, and modules is
\* written only after compiled.
NewContractEngine == [contracts |-> EmptyMap, metrics |-> EmptyMap]

\* WASM code as the engine sees it: whether it starts with the magic number,
\* contains a floating-point opcode, compiles and instantiates, and its length.
WasmCode(magic, float, compiles, len) ==
    [Magic |-> magic, Float |-> float, Compiles |-> compiles, Len |-> len]

\* ValidateWasmCode: the error, "" for nil.
ValidateWasmCode(code) ==
    IF code = None THEN "empty code"
    ELSE IF code.Len < 4 \/ ~code.Magic THEN "invalid WASM magic number"
    ELSE IF code.Float THEN "wasm contains floating-point opcodes"
    ELSE ""

NilMapPanic == "panic: assignment to entry in nil map"

\* ContractEngine.DeployContract: [err, engine].  The contract is recorded
\* before its code is validated and the estimates before it is compiled; the
\* store into the nil map compiled panics once the code has compiled.
DeployContract(engine, owner, wasmCode, address) ==
    LET recorded == [engine EXCEPT !.contracts = Put(engine.contracts, address, wasmCode)]
        measured == [recorded EXCEPT !.metrics =
                        Put(recorded.metrics, address,
                            [InstructionEstimate |-> wasmCode.Len,
                             StateWriteEstimate |-> 1])]
    IN IF address \in DOMAIN engine.contracts
       THEN [err |-> "contract already exists at address", engine |-> engine]
       ELSE IF wasmCode = None
       THEN [err |-> "empty contract code", engine |-> engine]
       ELSE IF ValidateWasmCode(wasmCode) # ""
       THEN [err |-> ValidateWasmCode(wasmCode), engine |-> recorded]
       ELSE IF ~wasmCode.Compiles
       THEN [err |-> "failed to compile wasm module", engine |-> measured]
       ELSE [err |-> NilMapPanic, engine |-> measured]

\* The cached estimates of an address, zero where there are none.
MetricsOf(engine, address) ==
    IF address \in DOMAIN engine.metrics THEN engine.metrics[address]
    ELSE [InstructionEstimate |-> 0, StateWriteEstimate |-> 0]

\* ContractEngine.EstimateContractCall
EstimateContractCall(engine, address) == MetricsOf(engine, address).InstructionEstimate

\* ContractEngine.EstimateStateWrites
EstimateStateWrites(engine, address) == MetricsOf(engine, address).StateWriteEstimate

\* ContractEngine.ExecuteContractWithResult: [err, Instructions, StateWrites].
\* No module is ever cached, so the call compiles the code on demand and then
\* stores into the nil map compiled.
ExecuteContractWithResult(engine, contractAddr) ==
    LET fail(e) == [err |-> e, Instructions |-> 0, StateWrites |-> 0]
    IN IF contractAddr \notin DOMAIN engine.contracts THEN fail("contract not found")
       ELSE IF ~engine.contracts[contractAddr].Compiles
       THEN fail("failed to compile wasm module")
       ELSE fail(NilMapPanic)

-----------------------------------------------------------------------------
(* State: transactions replayed on an indexed batch over the store. *)

ZeroAccount(addr) ==
    [Address |-> addr, Balance |-> 0, Nonce |-> 0, Stake |-> 0, RC |-> 0,
     RCMax |-> 0, LastRCEffectiveTime |-> 0, Code |-> None, PubKey |-> None]

\* The closure get of PreviewBlock and ApplyBlock: a fresh copy of the entry
\* the batch shows, the zero account where there is none.
GetAccount(batch, addr) ==
    IF addr \in DOMAIN batch THEN batch[addr] ELSE ZeroAccount(addr)

\* The payload switch of applyTransactionWithKV on the regenerated sender:
\* [err, sender, batch, engine, instructions, stateWrites].
applyPayload(txn, p, sender, batch, engine, preview) ==
    LET res(e, snd, b, eng, ins, wr) ==
            [err |-> e, sender |-> snd, batch |-> b, engine |-> eng,
             instructions |-> ins, stateWrites |-> wr]
        fail(e) == res(e, sender, batch, engine, 0, 0)
    IN CASE p.Type = "Transfer" ->
              IF sender.Balance < p.Amount THEN fail("insufficient balance")
              ELSE LET receiver == GetAccount(batch, p.To)
                   IN res("", [sender EXCEPT !.Balance = sender.Balance - p.Amount],
                          Put(batch, p.To,
                              [receiver EXCEPT !.Balance = U64(receiver.Balance + p.Amount)]),
                          engine, 0, 2)
         [] p.Type = "StakeDelegate" ->
              IF sender.Balance < p.Amount THEN fail("insufficient balance")
              ELSE res("", [sender EXCEPT !.Balance = sender.Balance - p.Amount,
                                          !.Stake = U64(sender.Stake + p.Amount)],
                       batch, engine, 0, 1)
         [] p.Type = "StakeUndelegate" ->
              IF sender.Stake < p.Amount THEN fail("insufficient stake")
              ELSE res("", [sender EXCEPT !.Stake = sender.Stake - p.Amount,
                                          !.Balance = U64(sender.Balance + p.Amount)],
                       batch, engine, 0, 1)
         [] p.Type = "ContractDeploy" ->
              LET deployed == IF preview
                              THEN [err |-> ValidateWasmCode(p.Code), engine |-> engine]
                              ELSE DeployContract(engine, txn.To, p.Code, txn.To)
                  contractAcct == GetAccount(batch, txn.To)
              IN IF deployed.err # ""
                 THEN res(deployed.err, sender, batch, deployed.engine, 0, 0)
                 ELSE res("", sender,
                          Put(batch, txn.To, [contractAcct EXCEPT !.Code = p.Code]),
                          deployed.engine, 0, 1)
         [] p.Type = "ContractCall" ->
              IF preview
              THEN res("", sender, batch, engine,
                       EstimateContractCall(engine, p.To),
                       EstimateStateWrites(engine, p.To))
              ELSE LET result == ExecuteContractWithResult(engine, p.To)
                   IN IF result.err # "" THEN fail(result.err)
                      ELSE res("", sender, batch, engine,
                               result.Instructions, result.StateWrites)
         [] p.Type \in {"GovernanceProposal", "GovernanceVote"} ->
              res("", sender, batch, engine, 0, 1)
         [] OTHER -> fail("unsupported payload type")

\* The nonce check of applyTransactionWithKV: the error, "" for nil.
NonceErr_Accepts(sender, txn) == ""

NonceErr(sender, txn) ==
    IF sender.Nonce # txn.Nonce THEN "invalid nonce" ELSE ""

\* State.applyTransactionWithKV: [err, batch, engine].  The sender is read
\* once and written last; a receiver or contract account is a second copy of
\* its entry, written before the sender.
applyTransactionWithKV(txn, engine, effectiveTime, batch, preview) ==
    LET fail(e) == [err |-> e, batch |-> batch, engine |-> engine]
        stored == GetAccount(batch, txn.From)
        payloadEnv == DecodePayload(txn.Payload)
        key == ResolveSenderPubKey(txn, stored.PubKey, payloadEnv.SenderPubKey)
        regen == Regen(stored.RC, stored.Stake, stored.LastRCEffectiveTime, effectiveTime)
        sender == [stored EXCEPT !.PubKey = IF key.register THEN key.pubKey ELSE @,
                                 !.RC = regen.rc,
                                 !.LastRCEffectiveTime = regen.time,
                                 !.RCMax = RCMax(stored.Stake)]
    IN IF txn.From = "" \/ txn.To = "" THEN fail("invalid sender or recipient")
       ELSE IF payloadEnv.err # "" THEN fail("decode payload")
       ELSE IF key.err # "" THEN fail(key.err)
       ELSE IF VerifySignature(txn, key.pubKey) # "" THEN fail("invalid signature")
       ELSE IF NonceErr(stored, txn) # "" THEN fail(NonceErr(stored, txn))
       ELSE The({
            LET cost == Cost(SizeBytes(txn), step.instructions, step.stateWrites)
            IN IF step.err # ""
               THEN [err |-> step.err, batch |-> step.batch, engine |-> step.engine]
               ELSE IF step.sender.RC < cost
               THEN [err |-> "insufficient rc", batch |-> step.batch,
                     engine |-> step.engine]
               ELSE [err |-> "",
                     batch |-> Put(step.batch, txn.From,
                                   [step.sender EXCEPT
                                       !.RC = step.sender.RC - cost,
                                       !.Nonce = U64(step.sender.Nonce + 1),
                                       !.RCMax = RCMax(step.sender.Stake)]),
                     engine |-> step.engine] :
            step \in {applyPayload(txn, payloadEnv.Payload, sender, batch, engine,
                                   preview)}})

\* The loop over block.Transactions: [err, batch, engine], stopping at the
\* first error.
RECURSIVE applyTransactions(_, _, _, _, _)
applyTransactions(txs, engine, effectiveTime, batch, preview) ==
    IF txs = <<>> THEN [err |-> "", batch |-> batch, engine |-> engine]
    ELSE The({IF one.err # "" THEN one
              ELSE applyTransactions(Tail(txs), one.engine, effectiveTime, one.batch,
                                     preview) :
              one \in {applyTransactionWithKV(Head(txs), engine, effectiveTime, batch,
                                              preview)}})

\* defer batch.Close() of PreviewBlock: the batch is dropped, the store keeps
\* its accounts.
PreviewBatchClose_Commits(st, batch) == [st EXCEPT !.accounts = batch]

PreviewBatchClose(st, batch) == st

\* State.PreviewBlock: [err, root, store].  The transactions are replayed on a
\* batch with deploys validated only and calls estimated; the root is the one
\* of the batch's view.
PreviewBlock(st, block, engine) ==
    LET effectiveTime == EffectiveTime(block.Timestamp, st.lastTimestamps, MaxSkewSec)
    IN The({[err |-> run.err,
             root |-> IF run.err # "" THEN ZeroHash ELSE ComputeStateRoot(run.batch),
             store |-> PreviewBatchClose(st, run.batch)] :
            run \in {applyTransactions(block.Transactions, engine, effectiveTime,
                                       st.accounts, TRUE)}})

\* DAG.updateTips
updateTips(tips, newNode, parents) ==
    SelectSeq(tips, LAMBDA t : \A i \in 1..Len(parents) : parents[i] # t)
        \o <<newNode>>

RECURSIVE addChildren(_, _, _)
addChildren(children, parents, child) ==
    IF parents = <<>> THEN children
    ELSE LET p == Head(parents)
             old == IF p \in DOMAIN children THEN children[p] ELSE <<>>
         IN addChildren(Put(children, p, Append(old, child)), Tail(parents), child)

\* DAG.AddNode: an existing root hash is an error and changes nothing.
AddNode(dg, node) ==
    IF node.RootHash \in DOMAIN dg.nodes THEN dg
    ELSE [nodes |-> Put(dg.nodes, node.RootHash, node),
          children |-> addChildren(dg.children, node.Parents, node.RootHash),
          tips |-> updateTips(dg.tips, node.RootHash, node.Parents)]

\* Store.SetConsensusState: the three entries of the checkpoint are written
\* in one batch.
SetConsensusState(st, h, r, lastFinal) ==
    [k \in DOMAIN st \cup {"consensus"} |->
        IF k = "consensus" THEN [height |-> h, round |-> r, lastFinalized |-> lastFinal]
        ELSE st[k]]

\* Store.GetConsensusState: the zero values for entries that were never
\* written.
GetConsensusState(st) ==
    IF "consensus" \in DOMAIN st THEN st.consensus
    ELSE [height |-> 0, round |-> 0, lastFinalized |-> ZeroHash]

\* The hashes the walk of PruneNonFinal marks, starting from seen: every
\* child listed for a marked hash is marked.
RECURSIVE walk(_, _)
walk(children, seen) ==
    LET next == seen \cup UNION {{children[h][i] : i \in 1..Len(children[h])} :
                                 h \in seen \cap DOMAIN children}
    IN IF next = seen THEN seen ELSE walk(children, next)

\* DAG.PruneNonFinal; order is the order in which the iteration over the
\* remaining nodes yields them.
PruneNonFinal(dg, finalRoot, order) ==
    LET seen == walk(dg.children, {finalRoot})
        gone == DOMAIN dg.nodes \ seen
        nodes == [h \in DOMAIN dg.nodes \cap seen |-> dg.nodes[h]]
        children == [h \in DOMAIN dg.children \ gone |-> dg.children[h]]
        isTip(h) == /\ Len(nodes[h].Parents) # 0
                    /\ (h \notin DOMAIN children \/ Len(children[h]) = 0)
    IN [nodes |-> nodes, children |-> children,
        tips |-> SelectSeq(order, isTip)]

\* A window truncated to its oldest n entries.
Newest_KeepsOldest(ts, n) == IF Len(ts) > n THEN SubSeq(ts, 1, n) ELSE ts

\* The newest n entries of a timestamp window.
Newest(ts, n) == IF Len(ts) > n THEN SubSeq(ts, Len(ts) - n + 1, Len(ts)) ELSE ts

\* defer batch.Close() of ApplyBlock on a path that returns before the commit.
ApplyBatchClose_Commits(st, batch) == [st EXCEPT !.accounts = batch]

ApplyBatchClose(st, batch) == st

\* State.ApplyBlock: [err, root, store, dag, engine].  The store changes only
\* by the commit of the batch; the contract engine keeps what the replayed
\* deploys did to it, whatever the outcome.
ApplyBlock(st, dg, block, engine) ==
    LET failed(e, s, eng) ==
            [err |-> e, root |-> ZeroHash, store |-> s, dag |-> dg, engine |-> eng]
        hash == HashBlock(block)
        \* the second replay, on the store as the preview left it
        replay(preview) ==
            applyTransactions(block.Transactions, engine,
                              EffectiveTime(block.Timestamp,
                                            preview.store.lastTimestamps, MaxSkewSec),
                              preview.store.accounts, FALSE)
        window(preview) ==
            Newest(Append(preview.store.lastTimestamps, block.Timestamp), WindowN)
        finish(preview, run, root) ==
            IF run.err # ""
            THEN failed(run.err, ApplyBatchClose(preview.store, run.batch), run.engine)
            ELSE IF root # block.StateRoot
            THEN failed("state root mismatch after apply",
                        ApplyBatchClose(preview.store, run.batch), run.engine)
            ELSE [err |-> "", root |-> root,
                  store |-> [accounts |-> run.batch,
                             lastTimestamps |-> window(preview),
                             blocks |-> Put(preview.store.blocks, hash, block),
                             blockHeights |-> Put(preview.store.blockHeights,
                                                  block.Height, hash)],
                  dag |-> AddNode(dg, [RootHash |-> root,
                                       Parents |-> <<block.PrevHash>>,
                                       Height |-> block.Height]),
                  engine |-> run.engine]
    IN The({IF preview.err # "" THEN failed(preview.err, preview.store, engine)
            ELSE IF block.StateRoot # preview.root
            THEN failed("state root mismatch", preview.store, engine)
            ELSE The({The({finish(preview, run, root) :
                           root \in {ComputeStateRoot(run.batch)}}) :
                      run \in {replay(preview)}}) :
            preview \in {PreviewBlock(st, block, engine)}})

-----------------------------------------------------------------------------
(* The mempool (package mempool), the costers it is built with, and the     *)
(* heap of container/heap that SelectForBlock drives through txHeap.        *)

\* mempool.New: the coster and an empty pool.
New(coster) == [coster |-> coster, pool |-> EmptyMap]

\* tx.Coster.Cost: [err, cost].
CosterCost(engine, txn) ==
    LET env == DecodePayload(txn.Payload)
        p == env.Payload
        priced(instructions, writes) ==
            [err |-> "", cost |-> Cost(SizeBytes(txn), instructions, writes)]
    IN IF env.err # "" THEN [err |-> env.err, cost |-> 0]
       ELSE IF p.Type = "Transfer" THEN priced(0, 2)
       ELSE IF p.Type \in {"StakeDelegate", "StakeUndelegate"} THEN priced(0, 1)
       ELSE IF p.Type = "ContractDeploy"
       THEN priced(IF p.Code = None THEN 0 ELSE p.Code.Len, 1)
       ELSE IF p.Type = "ContractCall"
       THEN priced(EstimateContractCall(engine, p.To), EstimateStateWrites(engine, p.To))
       ELSE IF p.Type \in {"GovernanceProposal", "GovernanceVote"} THEN priced(0, 1)
       ELSE [err |-> "unsupported payload type", cost |-> 0]

\* The sender whose first transaction the coster of the mempool's test prices
\* higher.
MockPriority == "v2"

\* mockCoster.Cost of the mempool's test: [err, cost].
mockCosterCost(txn) ==
    [err |-> "", cost |-> IF txn.From = MockPriority /\ txn.Nonce = 0 THEN 10 ELSE 5]

\* Coster.Cost through the interface the mempool holds.
CostBy(coster, engine, txn) ==
    IF coster = "mockCoster" THEN mockCosterCost(txn) ELSE CosterCost(engine, txn)

\* encoding.HashTransaction
HashTransaction(txn) == HashBytes(MarshalTransaction(txn))

\* Hash.String as txHeap.Less compares it: the place of the hex string in the
\* order of strings.  SHA-256 scatters the transactions; the order here is a
\* fixed one that follows neither the order of the senders nor the nonces.
HashString(hash) ==
    LET data == hash[2]
        from == CASE data[2] = "v1" -> 2 [] data[2] = "v2" -> 3
                  [] data[2] = "v3" -> 0 [] OTHER -> 1
        nonce == (data[4] * 3 + 1) % 4
    IN (nonce * 16) + (from * 4) + ((Len(data[5]) + Len(data[6])) % 4)

\* A Less that prefers the lower cost.
Less_CheapestFirst(a, b) ==
    IF a.cost # b.cost THEN a.cost < b.cost
    ELSE HashString(a.hash) < HashString(b.hash)

\* txHeap.Less on two items
Less(a, b) ==
    IF a.cost # b.cost THEN a.cost > b.cost
    ELSE HashString(a.hash) < HashString(b.hash)

\* txHeap.Swap, on indices that count from 0
Swap(h, i, j) == [h EXCEPT ![i + 1] = h[j + 1], ![j + 1] = h[i + 1]]

\* heap.up
RECURSIVE up(_, _)
up(h, j) ==
    LET i == (j - 1) \div 2
    IN IF j = 0 \/ i = j \/ ~Less(h[j + 1], h[i + 1]) THEN h
       ELSE up(Swap(h, i, j), i)

\* heap.down
RECURSIVE down(_, _, _)
down(h, i, n) ==
    LET j1 == 2 * i + 1
        j2 == j1 + 1
        j == IF j2 < n /\ Less(h[j2 + 1], h[j1 + 1]) THEN j2 ELSE j1
    IN IF j1 >= n THEN h
       ELSE IF ~Less(h[j + 1], h[i + 1]) THEN h
       ELSE down(Swap(h, i, j), j, n)

\* heap.Push
HeapPush(h, x) == up(Append(h, x), Len(h))

\* heap.Pop: [item, heap]
HeapPop(h) ==
    LET n == Len(h) - 1
        sifted == down(Swap(h, 0, n), 0, n)
    IN [item |-> sifted[n + 1], heap |-> SubSeq(sifted, 1, n)]

\* The insertion loop of AddTx: [err, queue].
RECURSIVE insertByNonce(_, _, _)
insertByNonce(queue, txn, i) ==
    IF i > Len(queue) THEN [err |-> "", queue |-> Append(queue, txn)]
    ELSE IF txn.Nonce = queue[i].Nonce THEN [err |-> "duplicate nonce", queue |-> queue]
    ELSE IF txn.Nonce < queue[i].Nonce
    THEN [err |-> "", queue |-> SubSeq(queue, 1, i - 1) \o <<txn>>
                                   \o SubSeq(queue, i, Len(queue))]
    ELSE insertByNonce(queue, txn, i + 1)

\* AddTx's nonce check without the comparison.
StaleNonceErr_Accepts(acct, txn) == ""

\* AddTx's nonce check: the error, "" for nil.
StaleNonceErr(acct, txn) == IF txn.Nonce < acct.Nonce THEN "stale nonce" ELSE ""

\* The queue of a sender, empty where the pool has none.
QueueOf(pool, addr) == IF addr \in DOMAIN pool THEN pool[addr] ELSE <<>>

\* Mempool.AddTx against the accounts the state shows: [err, mempool].
AddTx(mp, accounts, engine, txn) ==
    LET fail(e) == [err |-> e, mempool |-> mp]
        acct == GetAccount(accounts, txn.From)
        env == DecodePayload(txn.Payload)
        key == ResolveSenderPubKey(txn, acct.PubKey, env.SenderPubKey)
        priced == CostBy(mp.coster, engine, txn)
        placed == insertByNonce(QueueOf(mp.pool, txn.From), txn, 1)
    IN IF txn.From = "" \/ txn.To = "" THEN fail("invalid sender or recipient")
       ELSE IF env.err # "" THEN fail(env.err)
       ELSE IF key.err # "" THEN fail(key.err)
       ELSE IF VerifySignature(txn, key.pubKey) # ""
       THEN fail(VerifySignature(txn, key.pubKey))
       ELSE IF StaleNonceErr(acct, txn) # "" THEN fail(StaleNonceErr(acct, txn))
       ELSE IF priced.err # "" THEN fail(priced.err)
       ELSE IF acct.RC < priced.cost THEN fail("insufficient rc")
       ELSE IF placed.err # "" THEN fail(placed.err)
       ELSE [err |-> "",
             mempool |-> [mp EXCEPT !.pool = Put(mp.pool, txn.From, placed.queue)]]

\* The senderState of every sender with a queue: a copy of the account, the
\* cursor and the queue.
SenderStates(mp, accounts) ==
    [addr \in {a \in DOMAIN mp.pool : Len(mp.pool[a]) > 0} |->
        [acct |-> GetAccount(accounts, addr), cursor |-> 0, queue |-> mp.pool[addr]]]

\* What SelectForBlock does with the transaction at a sender's cursor: the
\* heap with the transaction pushed when its nonce is the account's and the
\* RC covers its cost; [err, heap].
pushIfValid(mp, engine, st, addr, h) ==
    LET txn == st.queue[st.cursor + 1]
        priced == CostBy(mp.coster, engine, txn)
    IN IF txn.Nonce # st.acct.Nonce THEN [err |-> "", heap |-> h]
       ELSE IF priced.err # "" THEN [err |-> priced.err, heap |-> h]
       ELSE IF st.acct.RC < priced.cost THEN [err |-> "", heap |-> h]
       ELSE [err |-> "",
             heap |-> HeapPush(h, [tx |-> txn, cost |-> priced.cost,
                                   hash |-> HashTransaction(txn), sender |-> addr])]

\* The loop seeding the heap, over the senders in the order the map yields
\* them: [err, heap].
RECURSIVE seedHeap(_, _, _, _, _)
seedHeap(mp, engine, senders, order, h) ==
    IF order = <<>> THEN [err |-> "", heap |-> h]
    ELSE The({IF pushed.err # "" THEN pushed
              ELSE seedHeap(mp, engine, senders, Tail(order), pushed.heap) :
              pushed \in {pushIfValid(mp, engine, senders[Head(order)], Head(order), h)}})

\* The loop popping the heap: [err, out, senders].
RECURSIVE selectLoop(_, _, _, _, _, _)
selectLoop(mp, engine, senders, h, out, max) ==
    IF Len(h) = 0 \/ Len(out) >= max
    THEN [err |-> "", out |-> out, senders |-> senders]
    ELSE The({
        LET item == popped.item
            st == senders[item.sender]
            moved == [st EXCEPT !.acct.Nonce = U64(@ + 1),
                                !.acct.RC = IF @ >= item.cost THEN @ - item.cost ELSE 0,
                                !.cursor = @ + 1]
            after == [senders EXCEPT ![item.sender] = moved]
            pushed == IF moved.cursor >= Len(moved.queue)
                      THEN [err |-> "", heap |-> popped.heap]
                      ELSE pushIfValid(mp, engine, moved, item.sender, popped.heap)
        IN IF pushed.err # "" THEN [err |-> pushed.err, out |-> <<>>, senders |-> after]
           ELSE selectLoop(mp, engine, after, pushed.heap, Append(out, item.tx), max) :
        popped \in {HeapPop(h)}})

\* Mempool.SelectForBlock(max) against the accounts the state shows, with the
\* senders seeded in the order the iteration over the map yields: [err, out,
\* senders], the last being the senderState map as the call leaves it.
SelectForBlock(mp, accounts, engine, max, order) ==
    IF max <= 0 THEN [err |-> "", out |-> <<>>, senders |-> EmptyMap]
    ELSE The({IF seeded.err # ""
              THEN [err |-> seeded.err, out |-> <<>>,
                    senders |-> SenderStates(mp, accounts)]
              ELSE selectLoop(mp, engine, SenderStates(mp, accounts), seeded.heap,
                              <<>>, max) :
              seeded \in {seedHeap(mp, engine, SenderStates(mp, accounts), order, <<>>)}})

\* State.GetAccount hands SelectForBlock accounts decoded from the store: the
\* senderState copies are dropped with the call.
AccountsAfterSelect_Shared(accounts, senders) ==
    [a \in DOMAIN accounts \cup DOMAIN senders |->
        IF a \in DOMAIN senders THEN senders[a].acct ELSE accounts[a]]

AccountsAfterSelect(accounts, senders) == accounts

\* The orders in which the iteration over a map with these keys can yield
\* them.
IterationOrders(keys) ==
    {order \in [1..Cardinality(keys) -> keys] :
        \A i, j \in 1..Cardinality(keys) : i # j => order[i] # order[j]}

\* Engine.mu when no call holds it.
Unlocked == [holder |-> "", called |-> <<>>]

\* Engine.mu held by the call op (Lock has returned, the deferred Unlock has
\* not run), which has called out to the operations of called since Lock.
Holding(op, called) == [holder |-> op, called |-> called]

-----------------------------------------------------------------------------
(* The BFT engine: helpers. *)

\* What the environment observed of the last call: the operation, its
\* argument, the value the call replaced (the validator's earlier vote for the
\* same hash, the round before a view change or timeout), the error and the
\* result.  Arguments and results are records, None where there is none.
Observed(op, arg, old, err, out) ==
    [op |-> op, arg |-> arg, old |-> old, err |-> err, out |-> out]

NumValidators(vs) == Len(vs.Validators)

\* Engine.validatorPubKey: [ok, pk]
validatorPubKey(vs, addr) ==
    IF addr \notin DOMAIN vs.IndexByAddr THEN [ok |-> FALSE, pk |-> None]
    ELSE IF vs.IndexByAddr[addr] >= NumValidators(vs) THEN [ok |-> FALSE, pk |-> None]
    ELSE [ok |-> TRUE, pk |-> vs.Validators[vs.IndexByAddr[addr] + 1].PublicKey]

\* The walk stopping at the first running total that reaches seed.
RECURSIVE walkProposer_Reaches(_, _, _, _)
walkProposer_Reaches(vs, seed, i, acc) ==
    IF i > NumValidators(vs) THEN None
    ELSE IF seed <= acc + vs.Validators[i].Power THEN vs.Validators[i].Address
    ELSE walkProposer_Reaches(vs, seed, i + 1, acc + vs.Validators[i].Power)

\* The loop of isExpectedProposerLocked from position i with running total
\* acc: the address of the first validator whose running total exceeds seed,
\* None when the walk ends without one.
RECURSIVE walkProposer(_, _, _, _)
walkProposer(vs, seed, i, acc) ==
    IF i > NumValidators(vs) THEN None
    ELSE IF seed < acc + vs.Validators[i].Power THEN vs.Validators[i].Address
    ELSE walkProposer(vs, seed, i + 1, acc + vs.Validators[i].Power)

\* Engine.isExpectedProposerLocked on snapshot vs at (h, r).
isExpectedProposer(vs, h, r, addr) ==
    IF NumValidators(vs) = 0 THEN FALSE
    ELSE IF vs.TotalPower = 0 THEN FALSE
    ELSE walkProposer(vs, (h + r) % vs.TotalPower, 1, 0) = addr

\* The leader check reading the registry instead of the snapshot.
isExpectedProposerLocked_Live(addr) ==
    isExpectedProposer(ValidatorSet(dpos), height, round, addr)

isExpectedProposerLocked(addr) == isExpectedProposer(validatorSet, height, round, addr)

isProposerLocked == isExpectedProposerLocked(validatorAddr)

\* The quorum test made non-strict.
HasQuorum_NonStrict(signedPower, totalPower) == signedPower * 3 >= totalPower * 2

\* The quorum test of tryBuildQC: `signedPower*3 <= totalPower*2` means no QC.
HasQuorum(signedPower, totalPower) == ~(signedPower * 3 <= totalPower * 2)

\* The loop of tryBuildQC over the map entries: the summed power of the
\* entries whose address the snapshot knows.
RECURSIVE signedPowerOf(_, _, _)
signedPowerOf(vs, vmap, todo) ==
    IF todo = {} THEN 0
    ELSE LET addr == CHOOSE a \in todo : TRUE
             rest == signedPowerOf(vs, vmap, todo \ {addr})
         IN IF addr \notin DOMAIN vs.IndexByAddr THEN rest
            ELSE vs.Validators[vs.IndexByAddr[addr] + 1].Power + rest

\* One byte of the bitmap: bit (idx % 8) of byte (idx / 8) is set iff the
\* validator at idx is in signers.
BitmapByte(signers, byteIdx) ==
    LET bits == {idx \in signers : idx \div 8 = byteIdx}
    IN SumFun([idx \in bits |-> 2 ^ (idx % 8)], bits)

BitSet(bitmap, i) == (bitmap[(i \div 8) + 1] \div (2 ^ (i % 8))) % 2 = 1

\* Engine.tryBuildQC: [ok, qc]
tryBuildQC(vs, h, r, blockHash, vmap) ==
    LET n == NumValidators(vs)
        known == {a \in DOMAIN vmap : a \in DOMAIN vs.IndexByAddr}
        signers == {vs.IndexByAddr[a] : a \in known}
        signedPower == signedPowerOf(vs, vmap, DOMAIN vmap)
        signatures == [i \in 1..n |->
                         IF vs.Validators[i].Address \in known
                         THEN vmap[vs.Validators[i].Address].Signature
                         ELSE None]
        bitmap == [b \in 1..((n + 7) \div 8) |-> BitmapByte(signers, b - 1)]
    IN IF vs.TotalPower = 0 THEN [ok |-> FALSE, qc |-> None]
       ELSE IF ~HasQuorum(signedPower, vs.TotalPower) THEN [ok |-> FALSE, qc |-> None]
       ELSE [ok |-> TRUE,
             qc |-> [BlockHash |-> blockHash, Height |-> h + 1, Round |-> r,
                     SigBitmap |-> bitmap, Signatures |-> signatures]]

\* The insertion keeping a validator's first vote.
RecordVote_KeepFirst(vmap, vote) ==
    IF vote.Validator \in DOMAIN vmap THEN vmap ELSE Put(vmap, vote.Validator, vote)

\* HandlePrecommitVote's insertion: vmap[vote.Validator] = vote.
RecordVote(vmap, vote) == Put(vmap, vote.Validator, vote)

\* VerifyQC's loop from validator position i (1-based here, i-1 in the code).
RECURSIVE verifyQCFrom(_, _, _)
verifyQCFrom(qc, vs, i) ==
    IF i > NumValidators(vs) THEN ""
    ELSE IF ~BitSet(qc.SigBitmap, i - 1) THEN verifyQCFrom(qc, vs, i + 1)
    ELSE IF i - 1 >= Len(qc.Signatures) THEN "missing signature"
    ELSE IF qc.Signatures[i] = None THEN "missing signature"
    ELSE IF ~VerifySig(PrecommitSignBytes([BlockHash |-> qc.BlockHash,
                                           Height |-> qc.Height,
                                           Round |-> qc.Round,
                                           Validator |-> vs.Validators[i].Address,
                                           Signature |-> None]),
                       qc.Signatures[i], vs.Validators[i].PublicKey)
         THEN "invalid signature"
    ELSE verifyQCFrom(qc, vs, i + 1)

\* VerifyQC: the error it returns, "" for nil.
VerifyQC(qc, vs) ==
    IF NumValidators(vs) = 0 THEN "empty validator set"
    ELSE IF Len(qc.SigBitmap) # (NumValidators(vs) + 7) \div 8 THEN "invalid bitmap length"
    ELSE verifyQCFrom(qc, vs, 1)

-----------------------------------------------------------------------------
(* Inputs the environment may hand to the replica. *)

EmptySigs(n) == [i \in 1..n |-> None]

curRoot == ComputeStateRoot(store.accounts)

\* A signature made with a key that no validator registered.
ForgedSig(msg) == Sign(PubKeyOf("intruder"), msg)

FirstTimestamp == CHOOSE t \in Timestamps : \A u \in Timestamps : t <= u

SnapshotAddrs == {validatorSet.Validators[i].Address : i \in 1..NumValidators(validatorSet)}

\* A well-formed candidate block of height h on top of the last finalized
\* block.
CandidateBlock(h, ts, proposer) ==
    [Height |-> h, PrevHash |-> lastFinalized, StateRoot |-> curRoot,
     Timestamp |-> ts, Proposer |-> proposer, Transactions |-> <<>>,
     ValidatorSigs |-> EmptySigs(NumValidators(validatorSet))]

NextBlock(ts) == CandidateBlock(height + 1, ts, validatorAddr)

\* The hashes votes are cast for: the candidate blocks of the next height,
\* one per timestamp.
CandidateHashes == {HashBlock(NextBlock(ts)) : ts \in Timestamps}

\* Proposals: correctly signed ones for the next height from every address
\* in every round, one for the height after, and from the local validator
\* one signed by an intruder and an unsigned one.
SignedProposal(h, p, r) ==
    LET unsigned == [Block |-> CandidateBlock(h, FirstTimestamp, p),
                     Round |-> r, ProposerSig |-> None]
    IN [unsigned EXCEPT !.ProposerSig = Sign(PubKeyOf(p), ProposalSignBytes(unsigned))]

ProposalInputs ==
    {SignedProposal(height + 1, p, r) : p \in Addresses, r \in 0..MaxRound}
    \cup {SignedProposal(height + 2, validatorAddr, round)}
    \cup LET good == SignedProposal(height + 1, validatorAddr, round)
         IN {[good EXCEPT !.ProposerSig = ForgedSig(ProposalSignBytes(good))],
             [good EXCEPT !.ProposerSig = None]}

SignedVote(blockHash, h, r, addr) ==
    LET unsigned == [BlockHash |-> blockHash, Height |-> h, Round |-> r,
                     Validator |-> addr, Signature |-> None]
    IN [unsigned EXCEPT !.Signature = Sign(PubKeyOf(addr), PrecommitSignBytes(unsigned))]

\* Precommit votes for the given hashes and rounds: correctly signed ones
\* of the given voters for the next height, and for the local validator a
\* stale one, one signed by an intruder and an unsigned one.
VoteInputsFor(hashes, rounds, voters) ==
    {SignedVote(bh, height + 1, r, a) : bh \in hashes, r \in rounds, a \in voters}
    \cup {SignedVote(bh, height, round, validatorAddr) : bh \in hashes}
    \cup UNION {
            LET good == SignedVote(bh, height + 1, round, validatorAddr)
            IN {[good EXCEPT !.Signature = ForgedSig(PrecommitSignBytes(good))],
                [good EXCEPT !.Signature = None]}
            : bh \in hashes}

\* The votes the vote-collection specification explores (every address in
\* every round for the first candidate hash, two validators for the other),
\* and the fewer ones the specification of the whole engine explores.
VoteInputs ==
    VoteInputsFor({HashBlock(NextBlock(FirstTimestamp))}, 0..MaxVoteRound, Addresses)
    \cup VoteInputsFor(CandidateHashes, {0}, {validatorAddr, "v2"})

VoteInputsLite ==
    VoteInputsFor({HashBlock(NextBlock(FirstTimestamp))}, {0}, {validatorAddr})

\* View changes: correctly signed ones for the next height in every round up
\* to MaxRound from a genesis validator and from an address that is not
\* always one; and for the highest round a stale one, one signed by an
\* intruder and an unsigned one.
SignedViewChange(h, r, a) ==
    LET unsigned == [Height |-> h, Round |-> r, Validator |-> a, Signature |-> None]
    IN [unsigned EXCEPT !.Signature = Sign(PubKeyOf(a), ViewChangeSignBytes(unsigned))]

ViewChangeInputs ==
    {SignedViewChange(height + 1, r, a) : r \in 0..MaxRound, a \in {validatorAddr, "v4"}}
    \cup {SignedViewChange(height, MaxRound, validatorAddr)}
    \cup LET good == SignedViewChange(height + 1, MaxRound, validatorAddr)
         IN {[good EXCEPT !.Signature = ForgedSig(ViewChangeSignBytes(good))],
             [good EXCEPT !.Signature = None]}

\* The QC an aggregator that holds the precommits of `signers` (addresses)
\* for blockHash at (h, r) assembles against snapshot vs.
QCOf(vs, blockHash, h, r, signers) ==
    LET n == NumValidators(vs)
        idxs == {i \in 0..(n - 1) : vs.Validators[i + 1].Address \in signers}
    IN [BlockHash |-> blockHash, Height |-> h, Round |-> r,
        SigBitmap |-> [b \in 1..((n + 7) \div 8) |-> BitmapByte(idxs, b - 1)],
        Signatures |-> [i \in 1..n |->
                          IF vs.Validators[i].Address \in signers
                          THEN SignedVote(blockHash, h, r, vs.Validators[i].Address).Signature
                          ELSE None]]

\* QCs a peer may send for one block hash: well-formed ones for every signer
\* set, and malformed ones (a set bit without signature, a signature by an
\* intruder, a bitmap of the wrong length, no positional signatures).
QCInputsFor(bh) ==
    UNION {
        LET qc == QCOf(validatorSet, bh, height + 1, round, S)
        IN {qc,
            [qc EXCEPT !.Signatures = EmptySigs(NumValidators(validatorSet))],
            [qc EXCEPT !.Signatures =
                [i \in DOMAIN qc.Signatures |->
                    IF qc.Signatures[i] = None THEN None
                    ELSE ForgedSig(PrecommitSignBytes(
                             SignedVote(bh, height + 1, round,
                                        validatorSet.Validators[i].Address)))]],
            [qc EXCEPT !.SigBitmap = qc.SigBitmap \o <<0>>],
            [qc EXCEPT !.Signatures = <<>>]}
        : S \in SUBSET SnapshotAddrs}

QCInputs == QCInputsFor(HashBlock(NextBlock(FirstTimestamp)))

\* FinalizeBlock's arguments: a candidate block of the next height or the one
\* after, with the right or a wrong state root, and a QC for that block or
\* for another one, carrying every validator's signature or no positional
\* signatures; and a certified block of the next height on top of a block
\* that was never finalized.
FinalizeBlockArgs(h, sr, ts, full) ==
    [block |-> [CandidateBlock(h, FirstTimestamp, validatorAddr) EXCEPT !.StateRoot = sr],
     qc |-> IF full
            THEN QCOf(validatorSet, HashBlock(CandidateBlock(h, ts, validatorAddr)),
                      h, round, SnapshotAddrs)
            ELSE [QCOf(validatorSet, HashBlock(CandidateBlock(h, ts, validatorAddr)),
                       h, round, {}) EXCEPT !.Signatures = <<>>]]

FinalizeBlockInputs ==
    {FinalizeBlockArgs(height + 1, sr, ts, full) :
        sr \in {curRoot, ZeroHash}, ts \in Timestamps, full \in BOOLEAN}
    \cup {FinalizeBlockArgs(height + 2, curRoot, FirstTimestamp, TRUE)}
    \cup {[block |-> [NextBlock(FirstTimestamp) EXCEPT
                         !.PrevHash = HashBlock(NextBlock(FirstTimestamp))],
           qc |-> QCOf(validatorSet,
                       HashBlock([NextBlock(FirstTimestamp) EXCEPT
                                     !.PrevHash = HashBlock(NextBlock(FirstTimestamp))]),
                       height + 1, round, SnapshotAddrs)]}

-----
(* The BFT engine: operations. *)

\* Config.BlockMaxTxs as node.Start sets it.
BlockMaxTxs == 1000

\* Engine.ProposeBlock; now is time.Now().Unix() and order the order in which
\* SelectForBlock's iteration yields the senders.  The state root is the hash
\* of the block with a zero root.  This is the call between Lock and the
\* deferred Unlock.
ProposeBlockLocked(now) ==
    /\ IF ~isProposerLocked
       THEN last' = Observed("ProposeBlock", [now |-> now], None, "not proposer", None)
       ELSE \E order \in IterationOrders({a \in DOMAIN mempool.pool :
                                             Len(mempool.pool[a]) > 0}) :
            \E txs \in {SelectForBlock(mempool, store.accounts, contracts, BlockMaxTxs,
                                       order)} :
               IF txs.err # ""
               THEN last' = Observed("ProposeBlock", [now |-> now], None, txs.err, None)
               ELSE LET block0 == [Height |-> height + 1, PrevHash |-> lastFinalized,
                                   StateRoot |-> ZeroHash, Timestamp |-> now,
                                   Proposer |-> validatorAddr, Transactions |-> txs.out,
                                   ValidatorSigs |->
                                       EmptySigs(NumValidators(validatorSet))]
                        block == [block0 EXCEPT !.StateRoot = HashBlock(block0)]
                        prop0 == [Block |-> block, Round |-> round, ProposerSig |-> None]
                        prop == [prop0 EXCEPT !.ProposerSig =
                                    Sign(PubKeyOf(validatorAddr), ProposalSignBytes(prop0))]
                    IN last' = Observed("ProposeBlock", [now |-> now], None, "", prop)
    /\ UNCHANGED <<network, mempool, dpos, engineVars, store, dag, contracts>>

\* Engine.ProposeBlock: the lock is taken on entry and released on return.
ProposeBlock(now) == ProposeBlockLocked(now) /\ UNCHANGED mu

\* HandleProposal's checks without the one of the proposer.
HandleProposalErr_AnyProposer(prop) ==
    IF prop.Block.Height # height + 1 THEN "unexpected height"
    ELSE IF ~validatorPubKey(validatorSet, prop.Block.Proposer).ok THEN "unknown proposer"
    ELSE IF ~VerifySig(ProposalSignBytes(prop), prop.ProposerSig,
                       validatorPubKey(validatorSet, prop.Block.Proposer).pk)
         THEN "invalid proposer signature"
    ELSE ""

\* The error HandleProposal returns, "" for nil.
HandleProposalErr(prop) ==
    IF prop.Block.Height # height + 1 THEN "unexpected height"
    ELSE IF ~isExpectedProposerLocked(prop.Block.Proposer) THEN "unexpected proposer"
    ELSE IF ~validatorPubKey(validatorSet, prop.Block.Proposer).ok THEN "unknown proposer"
    ELSE IF ~VerifySig(ProposalSignBytes(prop), prop.ProposerSig,
                       validatorPubKey(validatorSet, prop.Block.Proposer).pk)
         THEN "invalid proposer signature"
    ELSE ""

\* Engine.HandleProposal between Lock and the deferred Unlock.
HandleProposalLocked(prop) ==
    /\ IF HandleProposalErr(prop) # ""
       THEN last' = Observed("HandleProposal", prop, None, HandleProposalErr(prop), None)
       ELSE last' = Observed("HandleProposal", prop, None, "",
                             SignedVote(mustHashBlock(prop.Block), prop.Block.Height,
                                        prop.Round, validatorAddr))
    /\ UNCHANGED <<network, mempool, dpos, engineVars, store, dag, contracts>>

\* Engine.HandleProposal: the lock is taken on entry and released on return.
HandleProposal(prop) == HandleProposalLocked(prop) /\ UNCHANGED mu

\* The error HandlePrecommitVote returns, "" for nil.
HandlePrecommitVoteErr(vote) ==
    IF vote.Height # height + 1 THEN "unexpected vote height"
    ELSE IF ~validatorPubKey(validatorSet, vote.Validator).ok THEN "unknown validator"
    ELSE IF ~VerifySig(PrecommitSignBytes(vote), vote.Signature,
                       validatorPubKey(validatorSet, vote.Validator).pk)
         THEN "invalid vote signature"
    ELSE ""

\* Engine.HandlePrecommitVote between Lock and the deferred Unlock.
HandlePrecommitVoteLocked(vote) ==
    IF HandlePrecommitVoteErr(vote) # ""
    THEN /\ last' = Observed("HandlePrecommitVote", vote, None,
                         HandlePrecommitVoteErr(vote), None)
         /\ UNCHANGED <<network, mempool, dpos, engineVars, store, dag, contracts>>
    ELSE LET old == IF vote.BlockHash \in DOMAIN votes
                    THEN votes[vote.BlockHash] ELSE [a \in {} |-> None]
             vmap == RecordVote(old, vote)
             built == tryBuildQC(validatorSet, height, round, vote.BlockHash, vmap)
         IN /\ votes' = Put(votes, vote.BlockHash, vmap)
            /\ last' = Observed("HandlePrecommitVote", vote,
                                IF vote.Validator \in DOMAIN old
                                THEN old[vote.Validator] ELSE None, "",
                                IF built.ok THEN built.qc ELSE None)
            /\ UNCHANGED <<network, mempool, dpos, validatorSet, height, round, lastFinalized, store, dag, contracts>>

\* Engine.HandlePrecommitVote: the lock is taken on entry and released on return.
HandlePrecommitVote(vote) == HandlePrecommitVoteLocked(vote) /\ UNCHANGED mu

\* The error HandleViewChange returns, "" for nil.
HandleViewChangeErr(vc) ==
    IF vc.Height # height + 1 THEN "unexpected view change height"
    ELSE IF ~validatorPubKey(validatorSet, vc.Validator).ok THEN "unknown validator"
    ELSE IF ~VerifySig(ViewChangeSignBytes(vc), vc.Signature,
                       validatorPubKey(validatorSet, vc.Validator).pk)
         THEN "invalid view change signature"
    ELSE ""

\* HandleViewChange adopting the round of every accepted message.
HandleViewChange_AdoptsAny(vc) ==
    /\ last' = Observed("HandleViewChange", vc, [round |-> round], HandleViewChangeErr(vc), None)
    /\ round' = IF HandleViewChangeErr(vc) = "" THEN vc.Round ELSE round
    /\ UNCHANGED <<mu, network, mempool, dpos, validatorSet, height, lastFinalized, votes, store, dag, contracts>>

\* Engine.HandleViewChange
HandleViewChange(vc) ==
    /\ last' = Observed("HandleViewChange", vc, [round |-> round], HandleViewChangeErr(vc), None)
    /\ round' = IF HandleViewChangeErr(vc) = "" /\ vc.Round > round
                THEN vc.Round ELSE round
    /\ UNCHANGED <<mu, network, mempool, dpos, validatorSet, height, lastFinalized, votes, store, dag, contracts>>

\* OnTimeout leaving the round alone.
OnTimeout_KeepsRound ==
    /\ round < MaxRound
    /\ round' = round
    /\ last' = Observed("OnTimeout", None, [round |-> round], "", None)
    /\ UNCHANGED <<mu, network, mempool, dpos, validatorSet, height, lastFinalized, votes, store, dag, contracts>>

\* Engine.OnTimeout
OnTimeout ==
    /\ round < MaxRound
    /\ round' = round + 1
    /\ last' = Observed("OnTimeout", None, [round |-> round], "", None)
    /\ UNCHANGED <<mu, network, mempool, dpos, validatorSet, height, lastFinalized, votes, store, dag, contracts>>

\* FinalizeBlock never taking the signatures of the QC.
WithQCSigs_Never(block, qc) == block

\* The block FinalizeBlock hands to ApplyBlock: the validator signatures are
\* taken from the QC when both have the length of the validator set.
WithQCSigs(block, qc) ==
    IF Len(qc.Signatures) = NumValidators(validatorSet)
    THEN [block EXCEPT !.ValidatorSigs = qc.Signatures]
    ELSE block

\* Engine.FinalizeBlock between Lock and the deferred Unlock.
FinalizeBlockLocked(block, qc) ==
    /\ Cardinality(DOMAIN store.blocks) < MaxBlocks
    /\ LET signed == WithQCSigs(block, qc)
           applied == ApplyBlock(store, dag, signed, contracts)
           final == [signed EXCEPT !.StateRoot = applied.root]
       IN IF applied.err # ""
          THEN /\ last' = Observed("FinalizeBlock", [block |-> block, qc |-> qc], None,
                                   applied.err, None)
               /\ store' = applied.store
               /\ contracts' = applied.engine
               /\ UNCHANGED <<network, mempool, dpos, engineVars, dag>>
          ELSE /\ store' = applied.store
               /\ dag' = applied.dag
               /\ contracts' = applied.engine
               /\ height' = final.Height
               /\ lastFinalized' = mustHashBlock(final)
               /\ validatorSet' = ValidatorSet(dpos)
               /\ round' = 0
               /\ votes' = [h \in DOMAIN votes \ {qc.BlockHash} |-> votes[h]]
               /\ last' = Observed("FinalizeBlock", [block |-> block, qc |-> qc], None, "", None)
               /\ UNCHANGED <<network, mempool, dpos>>

\* Engine.FinalizeBlock: the lock is taken on entry and released on return.
FinalizeBlock(block, qc) == FinalizeBlockLocked(block, qc) /\ UNCHANGED mu

\* VerifyQC applied to a received QC against the engine's snapshot; the
\* observation keeps the QC that was checked.
VerifyQCCall(qc) ==
    /\ last' = Observed("VerifyQC", qc, None, VerifyQC(qc, validatorSet), None)
    /\ UNCHANGED <<mu, network, mempool, dpos, engineVars, store, dag, contracts>>

-----------------------------------------------------------------------------
(* The DPoS manager: operations. *)

\* DPoS.RegisterValidator
RegisterValidator(address, publicKey, stake, commission) ==
    /\ dpos' = RegisterValidatorIn(dpos, address, publicKey, stake, commission)
    /\ last' = Observed("RegisterValidator", [address |-> address, stake |-> stake], None,
                        RegisterValidatorErr(dpos, address, stake), None)
    /\ UNCHANGED <<mu, network, mempool, engineVars, store, dag, contracts>>

\* The amount delegator has delegated to v: a missing map entry reads as 0.
DelegatedBy(v, delegator) ==
    IF delegator \in DOMAIN v.Delegations THEN v.Delegations[delegator] ELSE 0

\* The error Delegate returns, "" for nil.
DelegateErr(validator, amount) ==
    IF validator \notin DOMAIN dpos THEN "validator not found"
    ELSE IF amount = 0 THEN "delegation amount must be positive"
    ELSE ""

\* DPoS.Delegate
Delegate(delegator, validator, amount) ==
    /\ validator \in DOMAIN dpos =>
          DelegatedBy(dpos[validator], delegator) + amount <= MaxDelegated
    /\ last' = Observed("Delegate",
                        [delegator |-> delegator, validator |-> validator, amount |-> amount],
                        None,
                        DelegateErr(validator, amount), None)
    /\ dpos' = IF DelegateErr(validator, amount) # "" THEN dpos
               ELSE LET v == dpos[validator]
                        had == DelegatedBy(v, delegator)
                    IN [dpos EXCEPT ![validator] =
                          [v EXCEPT !.Delegations = Put(v.Delegations, delegator, U64(had + amount)),
                                    !.Power = U64(v.Power + amount)]]
    /\ UNCHANGED <<mu, network, mempool, engineVars, store, dag, contracts>>

\* The error Undelegate returns, "" for nil.
UndelegateErr(delegator, validator, amount) ==
    IF validator \notin DOMAIN dpos THEN "validator not found"
    ELSE IF DelegatedBy(dpos[validator], delegator) < amount
         THEN "insufficient delegation"
    ELSE ""

\* DPoS.Undelegate
Undelegate(delegator, validator, amount) ==
    /\ last' = Observed("Undelegate",
                        [delegator |-> delegator, validator |-> validator, amount |-> amount],
                        None,
                        UndelegateErr(delegator, validator, amount), None)
    /\ dpos' = IF UndelegateErr(delegator, validator, amount) # "" THEN dpos
               ELSE LET v == dpos[validator]
                    IN [dpos EXCEPT ![validator] =
                          [v EXCEPT !.Delegations =
                                        Put(v.Delegations, delegator,
                                            U64(DelegatedBy(v, delegator) - amount)),
                                    !.Power = U64(v.Power - amount)]]
    /\ UNCHANGED <<mu, network, mempool, engineVars, store, dag, contracts>>

\* The validator after SlashDoubleSign: the slash amount is computed in the
\* code's width and subtracted only when the stake covers it.
Slashed(v, slashBps, jailEpochs, currentEpoch) ==
    LET slashAmount == U64(v.Stake * slashBps) \div 10000
        stake == IF v.Stake >= slashAmount THEN v.Stake - slashAmount ELSE v.Stake
    IN [v EXCEPT !.Stake = stake,
                 !.Power = stake,
                 !.JailedUntilEpoch = U64(currentEpoch + jailEpochs)]

\* The body of SlashDoubleSign, observed under the name of the entry point.
slash(op, validator, slashBps, jailEpochs, currentEpoch) ==
    /\ last' = Observed(op,
                        [validator |-> validator, slashBps |-> slashBps,
                         jailEpochs |-> jailEpochs, currentEpoch |-> currentEpoch],
                        IF validator \in DOMAIN dpos THEN dpos[validator] ELSE None,
                        IF validator \in DOMAIN dpos THEN "" ELSE "validator not found",
                        None)
    /\ dpos' = IF validator \notin DOMAIN dpos THEN dpos
               ELSE [dpos EXCEPT ![validator] =
                        Slashed(dpos[validator], slashBps, jailEpochs, currentEpoch)]
    /\ UNCHANGED <<mu, network, mempool, engineVars, store, dag, contracts>>

\* DPoS.SlashDoubleSign
SlashDoubleSign(validator, slashBps, jailEpochs, currentEpoch) ==
    slash("SlashDoubleSign", validator, slashBps, jailEpochs, currentEpoch)

\* DPoS.SlashOffline: the same rule as SlashDoubleSign.
SlashOffline(validator, slashBps, jailEpochs, currentEpoch) ==
    slash("SlashOffline", validator, slashBps, jailEpochs, currentEpoch)

\* DPoS.ValidatorSet called on the registry as it stands.
ValidatorSetCall ==
    /\ last' = Observed("ValidatorSet", None, None, "", ValidatorSet(dpos))
    /\ UNCHANGED <<mu, network, mempool, dpos, engineVars, store, dag, contracts>>

-----------------------------------------------------------------------------
(* The state manager: operations and their inputs. *)

\* State.PreviewBlock called on the store as it stands.
PreviewBlockCall(block) ==
    \E preview \in {PreviewBlock(store, block, contracts)} :
       /\ store' = preview.store
       /\ last' = Observed("PreviewBlock", [block |-> block], None, preview.err,
                           [root |-> preview.root])
       /\ UNCHANGED <<mu, network, mempool, dpos, engineVars, dag, contracts>>

\* State.ApplyBlock called on the store as it stands.
ApplyBlockCall(block) ==
    \E applied \in {ApplyBlock(store, dag, block, contracts)} :
       /\ store' = applied.store
       /\ dag' = applied.dag
       /\ contracts' = applied.engine
       /\ last' = Observed("ApplyBlock", [block |-> block], None, applied.err,
                           [root |-> applied.root])
       /\ UNCHANGED <<mu, network, mempool, dpos, engineVars>>

\* A module that validates, compiles and instantiates; one with the magic
\* number that does not compile.
GoodWasm == WasmCode(TRUE, FALSE, TRUE, 8)

BadWasm == WasmCode(TRUE, FALSE, FALSE, 5)

PayloadOf(type, to, amount, code) ==
    [Type |-> type, To |-> to, Amount |-> amount, Code |-> code]

\* A transaction of from signed with the key signer, carrying from's public key.
TxSignedBy(signer, from, to, nonce, p) ==
    LET unsigned == [From |-> from, To |-> to, Nonce |-> nonce,
                     Payload |-> EncodePayload(p, PubKeyOf(from)),
                     Signature |-> None]
    IN [unsigned EXCEPT !.Signature = Sign(PubKeyOf(signer), SigningBytes(unsigned))]

SignedTx(from, to, nonce, p) == TxSignedBy(from, from, to, nonce, p)

Transfer(from, to, amount, nonce) ==
    SignedTx(from, to, nonce, PayloadOf("Transfer", to, amount, None))

StakeDelegate(from, amount, nonce) ==
    SignedTx(from, from, nonce, PayloadOf("StakeDelegate", from, amount, None))

StakeUndelegate(from, amount, nonce) ==
    SignedTx(from, from, nonce, PayloadOf("StakeUndelegate", from, amount, None))

ContractDeploy(from, address, code, nonce) ==
    SignedTx(from, address, nonce, PayloadOf("ContractDeploy", "", 0, code))

ContractCall(from, address, nonce) ==
    SignedTx(from, address, nonce, PayloadOf("ContractCall", address, 0, None))

GovernanceVote(from, nonce) ==
    SignedTx(from, from, nonce, PayloadOf("GovernanceVote", "", 0, None))

\* The next nonce of an account of the store.
StoredNonce(a) == GetAccount(store.accounts, a).Nonce

\* Single transactions at the stored nonces: every payload variant, with
\* affordable and unaffordable amounts, a self-transfer, a nonce ahead of the
\* stored one and a forged signature.
TxInputs ==
    {Transfer("v1", "v2", 1, StoredNonce("v1")),
     Transfer("v1", "v1", 1, StoredNonce("v1")),
     Transfer("v1", "v2", 9, StoredNonce("v1")),
     StakeDelegate("v1", 1, StoredNonce("v1")),
     StakeUndelegate("v1", 2, StoredNonce("v1")),
     ContractDeploy("v1", "v3", GoodWasm, StoredNonce("v1")),
     ContractDeploy("v1", "v3", BadWasm, StoredNonce("v1")),
     ContractCall("v1", "v3", StoredNonce("v1")),
     GovernanceVote("v1", StoredNonce("v1")),
     Transfer("v2", "v1", 1, StoredNonce("v2")),
     Transfer("v1", "v2", 1, StoredNonce("v1") + 1),
     TxSignedBy("intruder", "v1", "v2", StoredNonce("v1"),
                PayloadOf("Transfer", "v2", 1, None))}

\* Two transactions in one block: consecutive nonces of one sender, two
\* senders, the same nonce twice, and a call that fails after a transfer.
TxPairs ==
    LET n == StoredNonce("v1")
    IN {<<ContractDeploy("v1", "v3", GoodWasm, n), ContractCall("v1", "v3", n + 1)>>,
        <<ContractDeploy("v1", "v3", BadWasm, n), ContractCall("v1", "v3", n + 1)>>,
        <<StakeDelegate("v1", 1, n), Transfer("v1", "v2", 1, n + 1)>>,
        <<Transfer("v1", "v2", 1, n), Transfer("v1", "v2", 1, n + 1)>>,
        <<Transfer("v1", "v1", 1, n), StakeUndelegate("v1", 2, n + 1)>>,
        <<Transfer("v1", "v2", 1, n), Transfer("v2", "v1", 1, StoredNonce("v2"))>>,
        <<Transfer("v1", "v2", 1, n), Transfer("v1", "v2", 1, n)>>,
        <<Transfer("v1", "v2", 1, n), ContractCall("v1", "v3", n + 1)>>,
        <<GovernanceVote("v1", n), StakeDelegate("v1", 1, n + 1)>>}

\* The transaction lists of a block.
TxLists == {<<>>} \cup {<<t>> : t \in TxInputs} \cup TxPairs

\* The hash of the block stored at the greatest height, the zero hash before
\* the first block.
TipHash ==
    IF DOMAIN store.blockHeights = {} THEN ZeroHash
    ELSE store.blockHeights[CHOOSE h \in DOMAIN store.blockHeights :
                               \A k \in DOMAIN store.blockHeights : k <= h]

\* A block on top of the stored ones, with the root PreviewBlock computes for
\* it when rooted, and the zero hash otherwise.
StateBlock(txs, ts, rooted) ==
    LET b == [Height |-> Cardinality(DOMAIN store.blockHeights) + 1,
              PrevHash |-> TipHash, StateRoot |-> ZeroHash, Timestamp |-> ts,
              Proposer |-> validatorAddr, Transactions |-> txs,
              ValidatorSigs |-> <<>>]
    IN IF rooted THEN [b EXCEPT !.StateRoot = PreviewBlock(store, b, contracts).root]
       ELSE b

\* New blocks: every transaction list with the previewed root at the first
\* timestamp, the empty block and a transfer beyond the skew, and blocks with
\* a wrong root.
StateBlockInputs ==
    {StateBlock(txs, FirstStateTimestamp, TRUE) : txs \in TxLists}
    \cup {StateBlock(txs, ts, TRUE) :
            txs \in {<<>>, <<Transfer("v1", "v2", 1, StoredNonce("v1"))>>},
            ts \in StateTimestamps}
    \cup {StateBlock(txs, FirstStateTimestamp, FALSE) :
            txs \in {<<>>, <<Transfer("v1", "v2", 1, StoredNonce("v1"))>>}}

StoredBlocks == {store.blocks[h] : h \in DOMAIN store.blocks}

-----------------------------------------------------------------------------
(* Construction: node.Start applies the genesis file, then NewEngine takes   *)
(* its first snapshot of the registry.                                     *)

GenesisValidator(a, stake) == [Address |-> a, Stake |-> stake]

\* Genesis files of the model: four validators of stake 1 each, and three
\* validators of stakes 3, 2 and 1 (a total that 3 divides).
GenesisConfigs ==
    {<<GenesisValidator("v1", 1), GenesisValidator("v2", 1),
       GenesisValidator("v3", 1), GenesisValidator("v4", 1)>>,
     <<GenesisValidator("v1", 3), GenesisValidator("v2", 2),
       GenesisValidator("v3", 1)>>}

\* The genesis files leader selection is explored on: the ones above, three
\* validators of stakes 5, 3 and 2, and one with equal stakes out of address
\* order.
LeaderConfigs ==
    GenesisConfigs
    \cup {<<GenesisValidator("v1", 5), GenesisValidator("v2", 3),
            GenesisValidator("v3", 2)>>,
          <<GenesisValidator("v3", 2), GenesisValidator("v1", 2),
            GenesisValidator("v2", 3)>>}

\* applyGenesis: [err, dpos] after registering the validators in file order.
RECURSIVE applyGenesis(_, _)
applyGenesis(d, vals) ==
    IF vals = <<>> THEN [err |-> "", dpos |-> d]
    ELSE LET v == Head(vals)
             e == RegisterValidatorErr(d, v.Address, v.Stake)
         IN IF e # "" THEN [err |-> e, dpos |-> d]
            ELSE applyGenesis(RegisterValidatorIn(d, v.Address, PubKeyOf(v.Address),
                                                  v.Stake, 0),
                              Tail(vals))

GenesisAccounts ==
    [a \in {"v1"} |->
        [Address |-> a, Balance |-> 10, Nonce |-> 0, Stake |-> 0, RC |-> 0,
         RCMax |-> 0, LastRCEffectiveTime |-> 0, Code |-> None, PubKey |-> None]]

\* The replica on genesis file g with the engine at (h, r); node.Start builds
\* it at (0, 0).
EngineBuilt(g, h, r, accounts, coster, net) ==
    /\ applyGenesis(EmptyMap, g).err = ""
    /\ dpos = applyGenesis(EmptyMap, g).dpos
    /\ validatorSet = ValidatorSet(dpos)
    /\ height = h
    /\ round = r
    /\ lastFinalized = ZeroHash
    /\ votes = EmptyMap
    /\ store = [accounts |-> accounts,
                lastTimestamps |-> <<GenesisTime>>,
                blocks |-> EmptyMap,
                blockHeights |-> EmptyMap]
    /\ dag = [nodes |-> EmptyMap, children |-> EmptyMap, tips |-> <<>>]
    /\ contracts = NewContractEngine
    /\ mempool = New(coster)
    /\ mu = Unlocked
    /\ network = net
    /\ last = Observed("NewEngine", None, None, "", None)

\* node.Start hands NewEngine a nil network.
EngineWith(g, h, r, accounts, coster) == EngineBuilt(g, h, r, accounts, coster, None)

\* node.Start builds the mempool on tx.Coster.
EngineOn(g, h, r, accounts) == EngineWith(g, h, r, accounts, "tx.Coster")

EngineAt(g, h, r) == EngineOn(g, h, r, GenesisAccounts)

Init == \E g \in GenesisConfigs : EngineAt(g, 0, 0)

DPoSNext ==
    \/ \E stake \in {0, 1} : RegisterValidator("v4", PubKeyOf("v4"), stake, 0)
    \/ \E amount \in {0, 1} : Delegate("v3", "v2", amount)

\* The whole replica: every operation of the engine and of the registry.
Next ==
    \/ \E now \in Timestamps : ProposeBlock(now)
    \/ \E prop \in ProposalInputs : HandleProposal(prop)
    \/ \E vote \in VoteInputsLite : HandlePrecommitVote(vote)
    \/ \E vc \in ViewChangeInputs : HandleViewChange(vc)
    \/ OnTimeout
    \/ \E in \in FinalizeBlockInputs : FinalizeBlock(in.block, in.qc)
    \/ DPoSNext

Spec == Init /\ [][Next]_vars

\* Vote collection within one height: every vote of the explored hashes and
\* rounds, in every order.
NextVotes == \E vote \in VoteInputs : HandlePrecommitVote(vote)

SpecVotes == Init /\ [][NextVotes]_vars

\* Verification of received QCs against the snapshot, in every round.
NextQC ==
    \/ \E qc \in QCInputs : VerifyQCCall(qc)
    \/ OnTimeout

SpecQC == Init /\ [][NextQC]_vars

\* Leader selection as a function of the snapshot, the height and the round:
\* the engine is placed at every (height, round) of the bounds and asked
\* about every address.
InitLeader ==
    \E g \in LeaderConfigs, h \in 0..MaxLeaderHeight, r \in 0..MaxLeaderRound :
        EngineAt(g, h, r)

AskProposer(addr) ==
    /\ last' = Observed("isExpectedProposerLocked", [addr |-> addr], None, "",
                        [expected |-> isExpectedProposerLocked(addr)])
    /\ UNCHANGED <<mu, network, mempool, dpos, engineVars, store, dag, contracts>>

NextLeader == \E addr \in Addresses : AskProposer(addr)

SpecLeader == InitLeader /\ [][NextLeader]_vars

\* The registry alone: registration, delegation, undelegation and both
\* slashing entry points, on a known and on an unknown validator, and the
\* snapshot taken between them.
SlashBps == {0, 5000, 10000, 20000, 30000}

NextDPoS ==
    \/ \E stake \in {0, 1} : RegisterValidator("v4", PubKeyOf("v4"), stake, 0)
    \/ \E validator \in {"v2", "v4"}, amount \in {0, 1} :
          Delegate("v3", validator, amount)
    \/ \E validator \in {"v2", "v4"}, amount \in {0, 1} :
          Undelegate("v3", validator, amount)
    \/ \E validator \in {"v2", "v4"}, slashBps \in SlashBps :
          SlashDoubleSign(validator, slashBps, 2, 1)
    \/ \E validator \in {"v2", "v4"}, slashBps \in {5000, 20000} :
          SlashOffline(validator, slashBps, 1, 1)
    \/ ValidatorSetCall

SpecDPoS == Init /\ [][NextDPoS]_vars

\* The registry changing under the engine: registration, delegation,
\* undelegation and slashing between time-outs and finalizations.
NextSnapshot ==
    \/ RegisterValidator("v4", PubKeyOf("v4"), 1, 0)
    \/ Delegate("v3", "v2", 1)
    \/ Undelegate("v3", "v2", 1)
    \/ SlashDoubleSign("v2", 5000, 2, 1)
    \/ SlashOffline("v1", 5000, 1, 1)
    \/ OnTimeout
    \/ \E in \in FinalizeBlockInputs : FinalizeBlock(in.block, in.qc)

SpecSnapshot == Init /\ [][NextSnapshot]_vars

\* The proposal of block for round r, signed by the block's proposer.
ProposalOf(block, r) ==
    LET unsigned == [Block |-> block, Round |-> r, ProposerSig |-> None]
    IN [unsigned EXCEPT !.ProposerSig =
           Sign(PubKeyOf(block.Proposer), ProposalSignBytes(unsigned))]

\* Proposals of two different blocks of the next height, from every address
\* in every round.
RivalProposalInputs ==
    {ProposalOf(CandidateBlock(height + 1, ts, p), r) :
        ts \in Timestamps, p \in Addresses, r \in 0..MaxRound}

\* A replica that is offered rival proposals between time-outs.
NextRivals ==
    \/ \E prop \in RivalProposalInputs : HandleProposal(prop)
    \/ OnTimeout

SpecRivals == Init /\ [][NextRivals]_vars

\* Vote collection while the round moves: votes of every explored round, in
\* every order, between time-outs and view changes.
NextRounds ==
    \/ \E vote \in VoteInputs : HandlePrecommitVote(vote)
    \/ OnTimeout
    \/ \E r \in 0..MaxRound : HandleViewChange(SignedViewChange(height + 1, r, validatorAddr))

SpecRounds == Init /\ [][NextRounds]_vars

\* The state manager alone, on a genesis file with two funded, staked accounts.
StateAccounts ==
    [a \in {"v1", "v2"} |->
        LET stake == IF a = "v1" THEN 2 ELSE 1
        IN [ZeroAccount(a) EXCEPT !.Balance = IF a = "v1" THEN 3 ELSE 1,
                                  !.Stake = stake,
                                  !.RCMax = RCMax(stake)]]

InitState == EngineOn(<<GenesisValidator("v1", 1)>>, 0, 0, StateAccounts)

NextState ==
    \/ /\ Cardinality(DOMAIN store.blocks) < MaxStateBlocks
       /\ \E block \in StateBlockInputs : PreviewBlockCall(block)
    \/ /\ Cardinality(DOMAIN store.blocks) < MaxStateBlocks
       /\ \E block \in StateBlockInputs : ApplyBlockCall(block)
    \/ \E block \in StoredBlocks : PreviewBlockCall(block)
    \/ \E block \in StoredBlocks : ApplyBlockCall(block)

SpecState == InitState /\ [][NextState]_vars

\* Coster.Cost and applyTransactionWithKV asked about one transaction on the
\* same accounts and contract engine: the cost the mempool would compare with
\* the account's RC, and the RC the state manager takes from the regenerated
\* account, in a preview and in an application.
CostCall(txn, effectiveTime, preview) ==
    \E stored \in {GetAccount(store.accounts, txn.From)} :
    \E regen \in {Regen(stored.RC, stored.Stake, stored.LastRCEffectiveTime,
                        effectiveTime)} :
    \E priced \in {CosterCost(contracts, txn)} :
    \E applied \in {applyTransactionWithKV(txn, contracts, effectiveTime,
                                          store.accounts, preview)} :
       /\ last' = Observed("Cost",
                           [tx |-> txn, effectiveTime |-> effectiveTime,
                            preview |-> preview],
                           [stored |-> stored.RC, regenerated |-> regen.rc],
                           applied.err,
                           [costErr |-> priced.err, cost |-> priced.cost,
                            charged |-> IF applied.err = ""
                                        THEN regen.rc - applied.batch[txn.From].RC
                                        ELSE 0])
       /\ UNCHANGED <<mu, network, mempool, dpos, engineVars, store, dag, contracts>>

\* The state manager with the coster asked about every transaction between
\* the blocks.
NextCost ==
    \/ /\ Cardinality(DOMAIN store.blocks) < MaxStateBlocks
       /\ \E block \in StateBlockInputs : ApplyBlockCall(block)
    \/ \E txn \in TxInputs, effectiveTime \in StateTimestamps, preview \in BOOLEAN :
          CostCall(txn, effectiveTime, preview)

SpecCost == InitState /\ [][NextCost]_vars

\* A transaction of from signed with the key signer, its envelope carrying
\* key (None: the envelope omits sender_pubkey).
TxCarrying(signer, key, from, to, nonce, p) ==
    LET unsigned == [From |-> from, To |-> to, Nonce |-> nonce,
                     Payload |-> EncodePayload(p, key), Signature |-> None]
    IN [unsigned EXCEPT !.Signature = Sign(PubKeyOf(signer), SigningBytes(unsigned))]

\* What the envelope of a transaction of from can carry, with the signer: no
\* key, from's key, and the key of another address signed by from or by the
\* holder of that key.
EnvelopeKeys(from) ==
    {<<from, None>>, <<from, PubKeyOf(from)>>, <<from, PubKeyOf("v3")>>,
     <<"v3", PubKeyOf("v3")>>}

\* Transactions of the two funded accounts at their stored nonces, with every
\* envelope key.
KeyTxInputs ==
    UNION {{TxCarrying(k[1], k[2], from, from, StoredNonce(from),
                       PayloadOf("GovernanceVote", "", 0, None)) :
               k \in EnvelopeKeys(from)} : from \in {"v1", "v2"}}
    \cup {TxCarrying(k[1], k[2], "v1", "v2", StoredNonce("v1"),
                     PayloadOf("Transfer", "v2", 1, None)) : k \in EnvelopeKeys("v1")}

\* A first spend followed in the same block by a second transaction of the
\* sender, with every envelope key.
KeyTxPairs ==
    {<<GovernanceVote("v1", StoredNonce("v1")),
       TxCarrying(k[1], k[2], "v1", "v1", StoredNonce("v1") + 1,
                  PayloadOf("GovernanceVote", "", 0, None))>> :
        k \in EnvelopeKeys("v1")}

KeyBlockInputs ==
    {StateBlock(txs, ts, TRUE) :
        txs \in {<<t>> : t \in KeyTxInputs} \cup KeyTxPairs, ts \in StateTimestamps}

\* The state manager fed with first and later spends.
NextKeys ==
    \/ /\ Cardinality(DOMAIN store.blocks) < MaxStateBlocks
       /\ \E block \in KeyBlockInputs : PreviewBlockCall(block)
    \/ /\ Cardinality(DOMAIN store.blocks) < MaxStateBlocks
       /\ \E block \in KeyBlockInputs : ApplyBlockCall(block)

SpecKeys == InitState /\ [][NextKeys]_vars

\* Mempool.AddTx called on the mempool and the store as they stand.
AddTxCall(txn) ==
    \E added \in {AddTx(mempool, store.accounts, contracts, txn)} :
       /\ mempool' = added.mempool
       /\ last' = Observed("AddTx", [tx |-> txn], [pool |-> mempool.pool], added.err, None)
       /\ UNCHANGED <<mu, network, dpos, engineVars, store, dag, contracts>>

\* Mempool.SelectForBlock(max); order is the order in which the iteration
\* over the map of senders yields them.
SelectForBlockCall(max, order) ==
    \E selected \in {SelectForBlock(mempool, store.accounts, contracts, max, order)} :
       /\ store' = [store EXCEPT !.accounts =
                       AccountsAfterSelect(store.accounts, selected.senders)]
       /\ last' = Observed("SelectForBlock", [max |-> max, order |-> order],
                           [pool |-> mempool.pool, accounts |-> store.accounts],
                           selected.err, [txs |-> selected.out])
       /\ UNCHANGED <<mu, network, mempool, dpos, engineVars, dag, contracts>>

\* The accounts of the mempool's ordering test, A = v1 and B = v2 with nonce 0
\* and RC 100, and a third account that has spent once and has little RC left.
MempoolAccounts ==
    [a \in {"v1", "v2", "v3"} |->
        IF a = "v3"
        THEN [ZeroAccount(a) EXCEPT !.Stake = 1, !.RCMax = RCMax(1), !.Nonce = 1,
                                    !.RC = 7, !.PubKey = PubKeyOf(a)]
        ELSE [ZeroAccount(a) EXCEPT !.Stake = 1, !.RCMax = RCMax(1), !.RC = 100]]

\* The nonces of the transactions offered to the mempool.
PoolNonces == {0, 1, 2}

\* Transactions offered to the mempool: transfers of the three accounts and
\* votes of the first at the nonces of PoolNonces, and transactions that lack a
\* recipient, a decodable payload, a valid signature or the sender's key.
MempoolTxInputs ==
    {Transfer(a, "v4", 1, n) : a \in {"v1", "v2", "v3"}, n \in PoolNonces}
    \cup {GovernanceVote("v1", n) : n \in PoolNonces}
    \cup {[Transfer("v1", "v4", 1, 0) EXCEPT !.To = ""],
          [Transfer("v1", "v4", 1, 0) EXCEPT !.Payload = <<>>],
          TxSignedBy("v3", "v1", "v4", 0, PayloadOf("Transfer", "v4", 1, None)),
          TxCarrying("v1", None, "v1", "v4", 0, PayloadOf("Transfer", "v4", 1, None))}

\* The node's mempool is built on tx.Coster, the one of the ordering test on
\* its mockCoster.
InitMempool ==
    \E coster \in {"tx.Coster", "mockCoster"} :
        EngineWith(<<GenesisValidator("v1", 1)>>, 0, 0, MempoolAccounts, coster)

NextMempool ==
    \/ \E txn \in MempoolTxInputs : AddTxCall(txn)
    \/ \E max \in 0..MaxBlockTxs :
          \E order \in IterationOrders({a \in DOMAIN mempool.pool :
                                           Len(mempool.pool[a]) > 0}) :
             SelectForBlockCall(max, order)

SpecMempool == InitMempool /\ [][NextMempool]_vars

\* The root hashes of the nodes handed to the DAG.
DagHashes == {HashBytes(<<i>>) : i \in 1..3}

\* State nodes: every root without a parent, with one other hash as parent,
\* and the third with the other two as parents.
DagNodeInputs ==
    {[RootHash |-> r, Parents |-> <<>>, Height |-> 1] : r \in DagHashes}
    \cup UNION {{[RootHash |-> r, Parents |-> <<p>>, Height |-> 2] :
                    p \in DagHashes \ {r}} : r \in DagHashes}
    \cup {[RootHash |-> HashBytes(<<3>>), Height |-> 3,
           Parents |-> <<HashBytes(<<1>>), HashBytes(<<2>>)>>]}

\* How often PruneNonFinal has run on the DAG.
Prunes ==
    IF last.op = "PruneNonFinal" THEN last.old.prunes + 1
    ELSE IF last.op = "AddNode" THEN last.old.prunes
    ELSE 0

\* DAG.AddNode called on the DAG as it stands.
AddNodeCall(node) ==
    /\ Prunes = 0
    /\ dag' = AddNode(dag, node)
    /\ last' = Observed("AddNode", [node |-> node], [dag |-> dag, prunes |-> Prunes],
                        IF node.RootHash \in DOMAIN dag.nodes
                        THEN "state node already exists" ELSE "", None)
    /\ UNCHANGED <<mu, network, mempool, dpos, engineVars, store, contracts>>

\* DAG.PruneNonFinal called on the DAG as it stands.
PruneNonFinalCall(finalRoot) ==
    /\ Prunes < MaxPrunes
    /\ \E order \in IterationOrders(DOMAIN PruneNonFinal(dag, finalRoot, <<>>).nodes) :
          /\ dag' = PruneNonFinal(dag, finalRoot, order)
          /\ last' = Observed("PruneNonFinal", [finalRoot |-> finalRoot],
                              [dag |-> dag, prunes |-> Prunes], "", None)
          /\ UNCHANGED <<mu, network, mempool, dpos, engineVars, store, contracts>>

\* The DAG is built by AddNode calls and then pruned.
NextDAG ==
    \/ \E node \in DagNodeInputs : AddNodeCall(node)
    \/ \E finalRoot \in DagHashes : PruneNonFinalCall(finalRoot)

SpecDAG == InitState /\ [][NextDAG]_vars

\* The votes of the first account at the nonces of PoolNonces.
QueuedVotes == {GovernanceVote("v1", n) : n \in PoolNonces}

\* FinalizeBlock of a block that carries the first of the queued votes, or the
\* first two, certified by every validator.
FinalizeQueued ==
    \E txs \in {<<GovernanceVote("v1", 0)>>,
                <<GovernanceVote("v1", 0), GovernanceVote("v1", 1)>>} :
       \E block \in {StateBlock(txs, FirstStateTimestamp, TRUE)} :
          FinalizeBlock(block, QCOf(validatorSet, HashBlock(block), block.Height, round,
                                    SnapshotAddrs))

\* A sender's transactions are pooled, selected and finalized.
NextQueue ==
    \/ \E txn \in QueuedVotes : AddTxCall(txn)
    \/ \E max \in 1..MaxBlockTxs :
          \E order \in IterationOrders({a \in DOMAIN mempool.pool :
                                           Len(mempool.pool[a]) > 0}) :
             SelectForBlockCall(max, order)
    \/ FinalizeQueued

SpecQueue == EngineOn(<<GenesisValidator("v1", 1)>>, 0, 0, MempoolAccounts)
             /\ [][NextQueue]_vars

\* FinalizeBlock of the block just proposed, certified by every validator of
\* the snapshot.
FinalizeProposed ==
    /\ last.op = "ProposeBlock"
    /\ last.err = ""
    /\ FinalizeBlock(last.out.Block,
                     QCOf(validatorSet, HashBlock(last.out.Block), last.out.Block.Height,
                          last.out.Round, SnapshotAddrs))

\* The replica before its first block, on the accounts of the genesis file and
\* on accounts that hold resource credits.
InitPropose ==
    \E g \in GenesisConfigs : \E accounts \in {GenesisAccounts, MempoolAccounts} :
        EngineOn(g, 0, 0, accounts)

\* The leader's path: transactions are offered to the mempool, rounds time
\* out, the local validator proposes and its proposal comes back certified.
NextPropose ==
    \/ \E txn \in MempoolTxInputs : AddTxCall(txn)
    \/ \E now \in Timestamps : ProposeBlock(now)
    \/ OnTimeout
    \/ FinalizeProposed

SpecPropose == InitPropose /\ [][NextPropose]_vars

\* ProposeBlock up to its return: it reads the accounts through the mempool
\* and hands the signed proposal to the network.
ProposeBlockHolding(now) ==
    /\ mu = Unlocked
    /\ ProposeBlockLocked(now)
    /\ mu' = Holding("ProposeBlock",
                     IF last'.err = "not proposer" THEN <<>>
                     ELSE <<"mempool.SelectForBlock">>
                          \o IF last'.err = "" /\ network # None
                             THEN <<"network.BroadcastProposal">> ELSE <<>>)

\* HandleProposal up to its return: it hands its vote to the network.
HandleProposalHolding(prop) ==
    /\ mu = Unlocked
    /\ HandleProposalLocked(prop)
    /\ mu' = Holding("HandleProposal",
                     IF last'.err = "" /\ network # None
                     THEN <<"network.BroadcastPrecommit">> ELSE <<>>)

\* HandlePrecommitVote up to its return: it hands the certificate it built to
\* the network.
HandlePrecommitVoteHolding(vote) ==
    /\ mu = Unlocked
    /\ HandlePrecommitVoteLocked(vote)
    /\ mu' = Holding("HandlePrecommitVote",
                     IF last'.err = "" /\ last'.out # None /\ network # None
                     THEN <<"network.BroadcastQC">> ELSE <<>>)

\* FinalizeBlock up to its return: ApplyBlock executes the transactions and
\* writes the store.
FinalizeBlockHolding(block, qc) ==
    /\ mu = Unlocked
    /\ FinalizeBlockLocked(block, qc)
    /\ mu' = Holding("FinalizeBlock", <<"state.ApplyBlock">>)

\* The deferred e.mu.Unlock() of the call that holds the lock.
Unlock ==
    /\ mu # Unlocked
    /\ mu' = Unlocked
    /\ UNCHANGED <<network, mempool, dpos, engineVars, store, dag, contracts, last>>

\* Votes of round 0 for the first candidate block, enough of them for a
\* quorum.
LockVoteInputs ==
    VoteInputsFor({HashBlock(NextBlock(FirstTimestamp))}, {0}, {validatorAddr, "v2"})

\* The engine with and without a network.
InitLock ==
    \E g \in GenesisConfigs : \E net \in {None, <<"Network">>} :
        EngineBuilt(g, 0, 0, GenesisAccounts, "tx.Coster", net)

\* The engine's calls, each from Lock to its return, and their unlocks.
NextLock ==
    \/ \E now \in Timestamps : ProposeBlockHolding(now)
    \/ \E prop \in ProposalInputs : HandleProposalHolding(prop)
    \/ \E vote \in LockVoteInputs : HandlePrecommitVoteHolding(vote)
    \/ \E in \in FinalizeBlockInputs : FinalizeBlockHolding(in.block, in.qc)
    \/ Unlock

SpecLock == InitLock /\ [][NextLock]_vars

\* rc.EffectiveTime applied to the drawn timestamp, window and skew.
EffectiveTimeCall ==
    /\ last.op = "call EffectiveTime"
    /\ last' = Observed("EffectiveTime", last.arg, None, "",
                        [time |-> EffectiveTime(last.arg.t, last.arg.window,
                                                last.arg.maxSkew)])
    /\ UNCHANGED <<mu, network, dpos, engineVars, store, dag, contracts, mempool>>

\* Params.Regen applied to the drawn parameters, RC, stake and times.
RegenCall ==
    /\ last.op = "call Regen"
    /\ last' = Observed("Regen", last.arg, None, "",
                        [regen |-> ParamsRegen(last.arg.p, last.arg.rc, last.arg.stake,
                                               last.arg.tLast, last.arg.tNew),
                         rcMax |-> ParamsRCMax(last.arg.p, last.arg.stake)])
    /\ UNCHANGED <<mu, network, dpos, engineVars, store, dag, contracts, mempool>>

\* Block timestamps: those of the clamp test, the genesis time and the ends
\* of the signed range.
ClampTimestamps == {MinInt, 0, 90, 102, 200, MaxInt - 3, MaxInt}

\* Timestamp windows: none, the one of the clamp test in order and shuffled,
\* an even count, one entry, and windows at the ends of the signed range.
ClampWindows ==
    {<<>>, <<100, 101, 102, 103, 104>>, <<104, 100, 103, 101, 102>>, <<100, 102>>,
     <<5>>, <<MaxInt - 3, MaxInt, 100>>, <<MinInt, MinInt + 2>>}

ClampSkews == {0, 5, MaxSkewSec}

\* RC parameters within the bounds of ValidateGenesis: those of the regen
\* test, those of DefaultGenesis, and a steep regeneration.
RegenParams ==
    {[Alpha |-> 10, Beta |-> 2], [Alpha |-> Alpha, Beta |-> Beta],
     [Alpha |-> 1, Beta |-> 1000]}

RegenAmounts == {0, 5, 20, 70, MaxUint - 1, MaxUint}

RegenTimes == {MinInt, -2, 0, 3, 100, MaxInt}

\* The calls of the pure functions of package rc on drawn inputs.
RCCalls ==
    {Observed("call EffectiveTime", [t |-> t, window |-> window, maxSkew |-> maxSkew],
              None, "", None) :
        t \in ClampTimestamps, window \in ClampWindows, maxSkew \in ClampSkews}
    \cup {Observed("call Regen",
                   [p |-> p, rc |-> currentRC, stake |-> stake, tLast |-> tLast,
                    tNew |-> tNew], None, "", None) :
            p \in RegenParams, currentRC \in RegenAmounts, stake \in RegenAmounts,
            tLast \in RegenTimes, tNew \in RegenTimes}

InitRC ==
    /\ dpos = applyGenesis(EmptyMap, <<GenesisValidator("v1", 1)>>).dpos
    /\ validatorSet = ValidatorSet(dpos)
    /\ height = 0
    /\ round = 0
    /\ lastFinalized = ZeroHash
    /\ votes = EmptyMap
    /\ store = [accounts |-> StateAccounts, lastTimestamps |-> <<GenesisTime>>,
                blocks |-> EmptyMap, blockHeights |-> EmptyMap]
    /\ dag = [nodes |-> EmptyMap, children |-> EmptyMap, tips |-> <<>>]
    /\ contracts = NewContractEngine
    /\ mempool = New("tx.Coster")
    /\ mu = Unlocked
    /\ network = None
    /\ last \in RCCalls

NextRC == EffectiveTimeCall \/ RegenCall

SpecRC == InitRC /\ [][NextRC]_vars

-----------------------------------------------------------------------------
(* Properties of the BFT engine. *)

\* C1: after every accepted HandlePrecommitVote for block hash h, a QC for h
\* is returned if and only if the powers of the snapshot's validators with a
\* recorded vote for h sum to strictly more than 2/3 of the total power; a
\* rejected vote returns none; with four validators of power 1, three
\* recorded votes yield a QC and one or two yield none.
C1_QCIffStrictQuorum ==
    last.op = "HandlePrecommitVote" =>
        IF last.err # "" THEN last.out = None
        ELSE LET h == last.arg.BlockHash
                 n == Len(validatorSet.Validators)
                 voted == {i \in 1..n : validatorSet.Validators[i].Address \in DOMAIN votes[h]}
                 signed == SumFun([i \in voted |-> validatorSet.Validators[i].Power], voted)
                 total == SumFun([i \in 1..n |-> validatorSet.Validators[i].Power], 1..n)
                 allOne == n = 4 /\ \A i \in 1..n : validatorSet.Validators[i].Power = 1
             IN /\ (last.out # None) <=> (signed * 3 > total * 2)
                /\ last.out # None => last.out.BlockHash = h
                /\ allOne => ((last.out # None) <=> Cardinality(voted) >= 3)

\* C1 witness: among four validators of power 1 the third vote for a hash
\* has just been recorded and a QC for that hash came back.
C1_Witness ==
    /\ last.op = "HandlePrecommitVote"
    /\ last.err = ""
    /\ last.out # None
    /\ Len(validatorSet.Validators) = 4
    /\ validatorSet.TotalPower = 4
    /\ Cardinality(DOMAIN votes[last.arg.BlockHash]) = 3

\* C2: under a snapshot of positive total power the expected proposer at
\* (height, round) is the first validator in set order whose running power
\* total strictly exceeds (height + round) mod total power, exactly one
\* address is the expected proposer, and for powers 5, 3, 2 of v1, v2, v3 it
\* is v1 at (0,0) and (0,1) and v2 at (0,5).
C2_LeaderIsFirstAboveSeed ==
    LET vals == validatorSet.Validators
        n == Len(vals)
        total == SumFun([i \in 1..n |-> vals[i].Power], 1..n)
        running(i) == SumFun([j \in 1..i |-> vals[j].Power], 1..i)
        seed == (height + round) % total
        leaders == {a \in Addresses : isExpectedProposerLocked(a)}
        is532 == /\ n = 3
                 /\ <<vals[1].Address, vals[2].Address, vals[3].Address>> = <<"v1", "v2", "v3">>
                 /\ <<vals[1].Power, vals[2].Power, vals[3].Power>> = <<5, 3, 2>>
    IN total > 0 =>
         /\ \A i \in 1..n :
               isExpectedProposerLocked(vals[i].Address) <=>
                   (running(i) > seed /\ \A j \in 1..(i - 1) : running(j) <= seed)
         /\ Cardinality(leaders) = 1
         /\ last.op = "isExpectedProposerLocked" =>
               (last.out.expected <=> last.arg.addr \in leaders)
         /\ is532 /\ height = 0 /\ round \in {0, 1} => leaders = {"v1"}
         /\ is532 /\ height = 0 /\ round = 5 => leaders = {"v2"}

\* C2 witness: with powers 5, 3, 2 at height 0 and round 5 the engine was
\* asked about v2 and answered that it is the expected proposer.
C2_Witness ==
    /\ last.op = "isExpectedProposerLocked"
    /\ last.arg.addr = "v2"
    /\ last.out.expected
    /\ height = 0
    /\ round = 5
    /\ validatorSet.TotalPower = 10
    /\ validatorSet.Validators[1].Power = 5

\* C3 as stated: HandleProposal emits a vote exactly when it returns no
\* error, and only for a block of height height+1 whose proposer is the
\* leader selected for (height+1, round), i.e. with seed
\* (height + 1 + round) mod total power.
C3_VoteOnlyForLeaderOfNextHeight ==
    last.op = "HandleProposal" =>
        LET vals == validatorSet.Validators
            n == Len(vals)
            total == SumFun([i \in 1..n |-> vals[i].Power], 1..n)
            running(i) == SumFun([j \in 1..i |-> vals[j].Power], 1..i)
            seed == (height + 1 + round) % total
        IN /\ (last.err = "") <=> (last.out # None)
           /\ last.out # None =>
                /\ last.arg.Block.Height = height + 1
                /\ \E i \in 1..n :
                      /\ vals[i].Address = last.arg.Block.Proposer
                      /\ running(i) > seed
                      /\ \A j \in 1..(i - 1) : running(j) <= seed

\* C3 amended: HandleProposal emits a vote exactly when it returns no error,
\* and only for a block of height height+1 whose proposer is the leader
\* selected with seed (height + round) mod total power, height being the last
\* finalized height; the vote is the local validator's, for the block's hash,
\* its height and the proposal's round.
C3_VoteOnlyForLeaderOfEngineHeight ==
    last.op = "HandleProposal" =>
        LET vals == validatorSet.Validators
            n == Len(vals)
            total == SumFun([i \in 1..n |-> vals[i].Power], 1..n)
            running(i) == SumFun([j \in 1..i |-> vals[j].Power], 1..i)
            seed == (height + round) % total
        IN /\ (last.err = "") <=> (last.out # None)
           /\ last.out # None =>
                /\ last.arg.Block.Height = height + 1
                /\ \E i \in 1..n :
                      /\ vals[i].Address = last.arg.Block.Proposer
                      /\ running(i) > seed
                      /\ \A j \in 1..(i - 1) : running(j) <= seed
                /\ last.out.BlockHash = HashBytes(MarshalBlock(last.arg.Block))
                /\ last.out.Height = height + 1
                /\ last.out.Round = last.arg.Round
                /\ last.out.Validator = validatorAddr

\* C3 witness: in round 1 at height 0 a proposal of v2 for height 1 was
\* answered with a vote.
C3_Witness ==
    /\ last.op = "HandleProposal"
    /\ last.out # None
    /\ last.arg.Block.Proposer = "v2"
    /\ last.arg.Block.Height = 1
    /\ height = 0
    /\ round = 1

\* C4 as stated: a FinalizeBlock whose QC names another hash than the
\* block's fails and leaves height, round, the last finalized hash, the votes
\* and the durable state unchanged.
C4_MismatchedQCRejected ==
    [][(/\ last'.op = "FinalizeBlock"
        /\ last'.arg.qc.BlockHash # HashBytes(MarshalBlock(last'.arg.block)))
       => /\ last'.err # ""
          /\ UNCHANGED <<mempool, height, round, lastFinalized, votes, store>>]_vars

\* C5: a successful FinalizeBlock(block, qc) leaves height = block.Height,
\* the last finalized hash = the hash of the block as finalized (with the
\* QC's signatures when their number is the size of the snapshot), round = 0,
\* no votes under qc.BlockHash, and as snapshot the registry's validators in
\* power-then-address order with their indices and total; a failed one
\* leaves these fields unchanged.
C5_FinalizeBlockEffect ==
    [][last'.op = "FinalizeBlock" =>
         LET block == last'.arg.block
             qc == last'.arg.qc
             finalized == IF Len(qc.Signatures) = Len(validatorSet.Validators)
                          THEN [block EXCEPT !.ValidatorSigs = qc.Signatures]
                          ELSE block
             vals == validatorSet'.Validators
             n == Len(vals)
         IN IF last'.err = ""
            THEN /\ height' = block.Height
                 /\ lastFinalized' = HashBytes(MarshalBlock(finalized))
                 /\ round' = 0
                 /\ qc.BlockHash \notin DOMAIN votes'
                 /\ \A h \in DOMAIN votes \ {qc.BlockHash} :
                       h \in DOMAIN votes' /\ votes'[h] = votes[h]
                 /\ n = Cardinality(DOMAIN dpos')
                 /\ {vals[i].Address : i \in 1..n} = DOMAIN dpos'
                 /\ \A i \in 1..n :
                       /\ vals[i].Power = dpos'[vals[i].Address].Power
                       /\ vals[i].PublicKey = dpos'[vals[i].Address].PublicKey
                       /\ vals[i].Index = i - 1
                       /\ validatorSet'.IndexByAddr[vals[i].Address] = i - 1
                 /\ \A i \in 1..(n - 1) :
                       \/ vals[i].Power > vals[i + 1].Power
                       \/ /\ vals[i].Power = vals[i + 1].Power
                          /\ AddrRank(vals[i].Address) < AddrRank(vals[i + 1].Address)
                 /\ validatorSet'.TotalPower = SumFun([i \in 1..n |-> vals[i].Power], 1..n)
            ELSE UNCHANGED <<height, lastFinalized, round, votes, validatorSet>>]_vars

\* C5 witness: a block of height 1 was finalized with the signatures of its
\* QC after a delegation had moved v2 to the head of the registry's order,
\* and the snapshot now has v2 first.
C5_Witness ==
    /\ last.op = "FinalizeBlock"
    /\ last.err = ""
    /\ height = 1
    /\ round = 0
    /\ Len(last.arg.qc.Signatures) = Len(last.arg.block.ValidatorSigs)
    /\ last.arg.qc.Signatures # last.arg.block.ValidatorSigs
    /\ Len(validatorSet.Validators) = 4
    /\ validatorSet.Validators[1].Address = "v2"
    /\ validatorSet.TotalPower = 5

\* C6 as stated: ProposeBlock, HandleProposal, HandlePrecommitVote and
\* HandleViewChange all keep round.
C6_OnlyOnTimeoutAdvances ==
    [][last'.op \in {"ProposeBlock", "HandleProposal", "HandlePrecommitVote",
                     "HandleViewChange"}
       => round' = round]_vars

\* C6 amended: round rises only in OnTimeout (by one) and in HandleViewChange;
\* ProposeBlock, HandleProposal and HandlePrecommitVote keep it, and so do the
\* registry's operations.
C6_OnlyTimeoutAndViewChangeAdvance ==
    [][/\ round' > round => last'.op \in {"OnTimeout", "HandleViewChange"}
       /\ last'.op = "OnTimeout" => round' = round + 1
       /\ last'.op \in {"ProposeBlock", "HandleProposal", "HandlePrecommitVote",
                        "RegisterValidator", "Delegate"}
          => round' = round]_vars

\* C6 witness: a view change has raised round from 0 to 1 with nothing
\* finalized (height is still 0) and no timeout fired before it (it found
\* round 0).
C6_Witness ==
    /\ last.op = "HandleViewChange"
    /\ last.err = ""
    /\ last.old.round = 0
    /\ round = 1
    /\ height = 0

\* C7: HandleViewChange changes round only when the message's signature
\* verifies for a validator of the snapshot and vc.Round > round; after a
\* call without error round = max(old round, vc.Round); a message with an
\* invalid signature or from an unknown validator leaves round unchanged;
\* and no operation but FinalizeBlock lowers round.
C7_ViewChangeAdoptsHigherRound ==
    [][/\ last'.op = "HandleViewChange" =>
            LET vc == last'.arg
                known == \E i \in 1..Len(validatorSet.Validators) :
                            validatorSet.Validators[i].Address = vc.Validator
                verifies == vc.Signature =
                               Sign(PubKeyOf(vc.Validator),
                                    <<"ViewChange", vc.Height, vc.Round, vc.Validator, None>>)
            IN /\ round' # round => known /\ verifies /\ vc.Round > round
               /\ last'.err = "" =>
                     round' = IF vc.Round > round THEN vc.Round ELSE round
               /\ ~known \/ ~verifies => round' = round /\ last'.err # ""
       /\ round' < round => last'.op = "FinalizeBlock"]_vars

\* C7 witness: an accepted view change for a lower round than the engine's
\* left round where it was.
C7_Witness ==
    /\ last.op = "HandleViewChange"
    /\ last.err = ""
    /\ last.arg.Round = 0
    /\ last.old.round = 1
    /\ round = 1

\* C8: a vote accepted from a validator that already has a recorded vote for
\* the same hash replaces that vote, leaves the set of voters of the hash and
\* every other hash's votes as they were, and returns a QC exactly when the
\* earlier votes already were a quorum; the power signed for a hash is the
\* sum over its distinct voters and never exceeds the total.
C8_RedeliveryCoalesced ==
    [][last'.op = "HandlePrecommitVote" /\ last'.err = "" =>
         LET vote == last'.arg
             h == vote.BlockHash
             vals == validatorSet.Validators
             n == Len(vals)
             power(vmaps) ==
                 LET voted == {i \in 1..n : h \in DOMAIN vmaps
                                             /\ vals[i].Address \in DOMAIN vmaps[h]}
                 IN SumFun([i \in voted |-> vals[i].Power], voted)
         IN /\ votes'[h][vote.Validator] = vote
            /\ power(votes') <= validatorSet.TotalPower
            /\ (last'.out # None) <=> (power(votes') * 3 > validatorSet.TotalPower * 2)
            /\ (h \in DOMAIN votes /\ vote.Validator \in DOMAIN votes[h]) =>
                  /\ DOMAIN votes' = DOMAIN votes
                  /\ DOMAIN votes'[h] = DOMAIN votes[h]
                  /\ \A a \in DOMAIN votes[h] \ {vote.Validator} : votes'[h][a] = votes[h][a]
                  /\ \A g \in DOMAIN votes \ {h} : votes'[g] = votes[g]
                  /\ power(votes') = power(votes)
                  /\ (last'.out # None) <=> (power(votes) * 3 > validatorSet.TotalPower * 2)]_vars

\* C8 witness: a validator whose round-0 vote for a hash was recorded has
\* delivered its round-1 vote for the same hash, which is now the recorded
\* one, among three voters of four.
C8_Witness ==
    /\ last.op = "HandlePrecommitVote"
    /\ last.err = ""
    /\ last.old # None
    /\ last.old.Round = 0
    /\ last.arg.Round = 1
    /\ votes[last.arg.BlockHash][last.arg.Validator] = last.arg
    /\ Cardinality(DOMAIN votes[last.arg.BlockHash]) = 3
    /\ last.out # None

\* C9 as stated: a correctly signed vote of a validator for height+1 for
\* another hash than one the validator already has a recorded vote of that
\* height for leaves the votes map unchanged, and no validator has recorded
\* votes of one height under two hashes.
C9_ContradictoryVoteDropped ==
    [][last'.op = "HandlePrecommitVote" /\ last'.err = "" =>
         LET vote == last'.arg
         IN (\E g \in DOMAIN votes \ {vote.BlockHash} :
                /\ vote.Validator \in DOMAIN votes[g]
                /\ votes[g][vote.Validator].Height = vote.Height)
            => votes' = votes]_vars

\* C10 as stated: VerifyQC accepts a QC if and only if the powers of the
\* validators whose bit is set sum to strictly more than 2/3 of the total
\* power and every set bit has a signature that verifies for that validator.
C10_VerifyQCIffQuorumAndSignatures ==
    last.op = "VerifyQC" =>
        LET qc == last.arg
            vals == validatorSet.Validators
            n == Len(vals)
            wellFormed == Len(qc.SigBitmap) = (n + 7) \div 8
            set == {i \in 1..n : wellFormed /\
                       (qc.SigBitmap[((i - 1) \div 8) + 1] \div (2 ^ ((i - 1) % 8))) % 2 = 1}
            signed == SumFun([i \in set |-> vals[i].Power], set)
            total == SumFun([i \in 1..n |-> vals[i].Power], 1..n)
            verifies(i) ==
                /\ i <= Len(qc.Signatures)
                /\ qc.Signatures[i] =
                      Sign(vals[i].PublicKey,
                           <<"PrecommitVote", qc.BlockHash, qc.Height, qc.Round,
                             vals[i].Address, None>>)
        IN (last.err = "") <=>
              (wellFormed /\ signed * 3 > total * 2 /\ \A i \in set : verifies(i))

-----------------------------------------------------------------------------
(* C11: after any sequence of RegisterValidator, Delegate, Undelegate,       *)
(* SlashDoubleSign and SlashOffline, every validator's power equals its     *)
(* stake plus the sum of the delegations recorded for it.                   *)
C11_PowerIsStakePlusDelegations ==
    \A a \in DOMAIN dpos :
        dpos[a].Power =
            dpos[a].Stake + SumFun(dpos[a].Delegations, DOMAIN dpos[a].Delegations)

-----------------------------------------------------------------------------
(* C12: every validator set returned by ValidatorSet is sorted by power      *)
(* descending and then by address ascending, each validator's index is its  *)
(* position and agrees with the index-by-address map, and the total power   *)
(* is the sum of the validators' powers.                                    *)
C12_SetSortedIndexedTotalled ==
    last.op = "ValidatorSet" =>
        LET vs == last.out
            n == Len(vs.Validators)
        IN /\ \A i \in 1..n, j \in 1..n :
                 i < j =>
                    \/ vs.Validators[i].Power > vs.Validators[j].Power
                    \/ /\ vs.Validators[i].Power = vs.Validators[j].Power
                       /\ AddrLess(vs.Validators[i].Address, vs.Validators[j].Address)
           /\ \A i \in 1..n :
                 /\ vs.Validators[i].Index = i - 1
                 /\ vs.IndexByAddr[vs.Validators[i].Address] = i - 1
           /\ DOMAIN vs.IndexByAddr = {vs.Validators[i].Address : i \in 1..n}
           /\ vs.TotalPower = SumFun([i \in 1..n |-> vs.Validators[i].Power], 1..n)

-----------------------------------------------------------------------------
(* C13: SlashDoubleSign and SlashOffline on a known validator subtract      *)
(* stake * bps / 10000 from the stake, saturating at 0 and without wrapping *)
(* around, set the power to the new stake and jailed_until_epoch to         *)
(* current_epoch + jail_epochs; on an unknown validator they fail and       *)
(* change nothing.                                                          *)
C13_SlashSaturates ==
    [][last'.op \in {"SlashDoubleSign", "SlashOffline"} =>
         LET a == last'.arg.validator
         IN IF a \in DOMAIN dpos
            THEN LET slashAmount == (dpos[a].Stake * last'.arg.slashBps) \div 10000
                     stake == IF dpos[a].Stake > slashAmount
                              THEN dpos[a].Stake - slashAmount ELSE 0
                 IN /\ last'.err = ""
                    /\ dpos'[a].Stake = stake
                    /\ dpos'[a].Power = stake
                    /\ dpos'[a].JailedUntilEpoch =
                          last'.arg.currentEpoch + last'.arg.jailEpochs
            ELSE /\ last'.err # ""
                 /\ dpos' = dpos]_vars

-----------------------------------------------------------------------------
(* C14: PreviewBlock never mutates durable state: for every block, valid or  *)
(* not, the accounts, the timestamp window, the block index and the state   *)
(* DAG are the same after the call as before it.                            *)
C14_PreviewLeavesStateAlone ==
    [][last'.op = "PreviewBlock" => store' = store /\ dag' = dag]_vars

\* C14 witness: a preview that succeeded on a block of two transactions, whose
\* replay wrote the accounts of both into the overlay.
C14_Witness ==
    /\ last.op = "PreviewBlock"
    /\ last.err = ""
    /\ Len(last.arg.block.Transactions) = 2
    /\ last.out.root # ComputeStateRoot(store.accounts)

-----------------------------------------------------------------------------
(* C15: ApplyBlock is atomic: when it returns an error no account, no entry  *)
(* of the timestamp window and no entry of the block index has changed; when *)
(* it succeeds the accounts of the block's root, the extended window and the *)
(* block's index entries are all there.                                      *)
C15_ApplyIsAtomic ==
    [][last'.op = "ApplyBlock" =>
         LET block == last'.arg.block
         IN IF last'.err # ""
            THEN store' = store
            ELSE /\ ComputeStateRoot(store'.accounts) = block.StateRoot
                 /\ last'.out.root = block.StateRoot
                 /\ store'.lastTimestamps =
                       Newest(Append(store.lastTimestamps, block.Timestamp), WindowN)
                 /\ HashBlock(block) \in DOMAIN store'.blocks
                 /\ store'.blocks[HashBlock(block)] = block
                 /\ block.Height \in DOMAIN store'.blockHeights
                 /\ store'.blockHeights[block.Height] = HashBlock(block)]_vars

\* C15 witness: an ApplyBlock that passed the preview and failed on the call
\* of its second transaction, after the transfer of the first one had been
\* written to the batch.
C15_Witness ==
    /\ last.op = "ApplyBlock"
    /\ last.err = "contract not found"
    /\ Len(last.arg.block.Transactions) = 2
    /\ DecodePayload(last.arg.block.Transactions[1].Payload).Payload.Type = "Transfer"

-----------------------------------------------------------------------------
(* C16: if PreviewBlock succeeds on a block with root r and the block's      *)
(* state root is r, then ApplyBlock on the same state succeeds and returns   *)
(* r, also for blocks with contract deploys and contract calls.              *)
C16_ApplyFollowsPreview ==
    [][last'.op = "ApplyBlock" =>
         LET block == last'.arg.block
         IN \A preview \in {PreviewBlock(store, block, contracts)} :
               (preview.err = "" /\ block.StateRoot = preview.root) =>
                   /\ last'.err = ""
                   /\ last'.out.root = preview.root]_vars

-----------------------------------------------------------------------------
(* C17: a second ApplyBlock of a block that is already stored, with the same *)
(* bytes at the same height, is a no-op: accounts (balances, nonces, RC) and *)
(* the timestamp window stay as the first application left them.            *)
C17_ReplayIsNoOp ==
    [][(/\ last'.op = "ApplyBlock"
        /\ HashBlock(last'.arg.block) \in DOMAIN store.blocks) =>
          /\ store'.accounts = store.accounts
          /\ store'.lastTimestamps = store.lastTimestamps]_vars

-----------------------------------------------------------------------------
(* C18: every account of the store has rc <= rc_max, and rc_max = alpha *    *)
(* stake (saturating), after every applied transaction; in particular the   *)
(* sender of a StakeUndelegate.                                             *)
C18_RCWithinMax ==
    \A a \in DOMAIN store.accounts :
        /\ store.accounts[a].RC <= store.accounts[a].RCMax
        /\ store.accounts[a].RCMax = RCMax(store.accounts[a].Stake)

-----------------------------------------------------------------------------
(* C19: the sum of balance + stake over all accounts is the same after       *)
(* every Transfer, StakeDelegate and StakeUndelegate as before it, also for *)
(* a transfer to the sender itself.                                         *)
C19_SupplyConserved ==
    SumFun([a \in DOMAIN store.accounts |->
               store.accounts[a].Balance + store.accounts[a].Stake],
           DOMAIN store.accounts)
      = SumFun([a \in DOMAIN StateAccounts |->
                   StateAccounts[a].Balance + StateAccounts[a].Stake],
               DOMAIN StateAccounts)

-----------------------------------------------------------------------------
(* C20: a transaction is applied only when its nonce equals the sender's     *)
(* stored nonce, so the transactions of one sender in an applied block carry *)
(* consecutive nonces from the stored one, and each applied transaction      *)
(* raises the sender's nonce by exactly 1; no nonce ever decreases.          *)
C20_NoncesConsecutive ==
    [][LET nonceOf(accounts, a) == GetAccount(accounts, a).Nonce
           txs == last'.arg.block.Transactions
           sentBefore(i) == Cardinality({j \in 1..(i - 1) : txs[j].From = txs[i].From})
           sentBy(a) == Cardinality({j \in 1..Len(txs) : txs[j].From = a})
       IN /\ \A a \in DOMAIN store.accounts :
                nonceOf(store'.accounts, a) >= nonceOf(store.accounts, a)
          /\ (last'.op = "ApplyBlock" /\ last'.err = "") =>
                /\ \A i \in 1..Len(txs) :
                      txs[i].Nonce = nonceOf(store.accounts, txs[i].From) + sentBefore(i)
                /\ \A a \in DOMAIN store'.accounts :
                      nonceOf(store'.accounts, a) = nonceOf(store.accounts, a) + sentBy(a)
          /\ (last'.op = "ApplyBlock" /\ last'.err # "") =>
                \A a \in DOMAIN store'.accounts :
                      nonceOf(store'.accounts, a) = nonceOf(store.accounts, a)]_vars

\* C20 witness: an applied block with two transactions of one sender, which
\* raised that sender's nonce by 2, in a store where that sender had sent
\* before.
C20_Witness ==
    /\ last.op = "ApplyBlock"
    /\ last.err = ""
    /\ Len(last.arg.block.Transactions) = 2
    /\ last.arg.block.Transactions[1].From = last.arg.block.Transactions[2].From
    /\ last.arg.block.Transactions[1].Nonce > 0
    /\ store.accounts[last.arg.block.Transactions[1].From].Nonce =
          last.arg.block.Transactions[1].Nonce + 2

-----------------------------------------------------------------------------
(* C21: a transaction of an account without a public key is rejected when    *)
(* its envelope omits sender_pubkey or carries a key whose address is not    *)
(* tx.from; with the matching key it passes the key rules and, once the      *)
(* block is applied, the key is stored.  A stored key never changes, and an  *)
(* envelope carrying another key than the stored one is rejected.            *)
C21_FirstSpendKeyRule ==
    [][LET txn == last'.arg.block.Transactions[1]
           stored == GetAccount(store.accounts, txn.From).PubKey
           carried == DecodePayload(txn.Payload).SenderPubKey
           keyErrs == {"sender_pubkey required for first spend",
                       "sender address mismatch",
                       "sender_pubkey does not match registered key"}
       IN /\ \A a \in DOMAIN store.accounts :
                store.accounts[a].PubKey # None =>
                    store'.accounts[a].PubKey = store.accounts[a].PubKey
          /\ (last'.op \in {"PreviewBlock", "ApplyBlock"}
                /\ last'.arg.block.Transactions # <<>>) =>
                /\ (stored = None /\ carried = None) => last'.err # ""
                /\ (stored = None /\ carried # None /\ carried # PubKeyOf(txn.From))
                      => last'.err # ""
                /\ (stored = None /\ carried = PubKeyOf(txn.From)
                      /\ txn.Signature = Sign(carried, SigningBytes(txn))
                      /\ Len(last'.arg.block.Transactions) = 1)
                      => last'.err \notin keyErrs \cup {"invalid signature"}
                /\ (stored = None /\ last'.op = "ApplyBlock" /\ last'.err = "")
                      => store'.accounts[txn.From].PubKey = PubKeyOf(txn.From)
                /\ (stored # None /\ carried # None /\ carried # stored)
                      => last'.err # ""]_vars

\* C21 witness: a block was applied whose first transaction came from an
\* account without a key and carried the matching key, which is now stored,
\* while another account still has none.
C21_Witness ==
    /\ last.op = "ApplyBlock"
    /\ last.err = ""
    /\ last.arg.block.Height = 1
    /\ LET txn == last.arg.block.Transactions[1]
       IN /\ DecodePayload(txn.Payload).SenderPubKey = PubKeyOf(txn.From)
          /\ store.accounts[txn.From].PubKey = PubKeyOf(txn.From)
          /\ \E a \in DOMAIN store.accounts : store.accounts[a].PubKey = None

\* C21 witness of the later spend: an account with a stored key sent a
\* transaction carrying another key, and it was rejected.
C21_WitnessLater ==
    /\ last.op = "ApplyBlock"
    /\ last.err = "sender_pubkey does not match registered key"
    /\ store.accounts[last.arg.block.Transactions[1].From].PubKey # None

-----------------------------------------------------------------------------
(* C22: SelectForBlock(N) returns the list built by repeatedly taking, among *)
(* the next-nonce transactions of the senders whose RC covers them, the one  *)
(* with the highest cost, ties broken by ascending transaction hash; the     *)
(* transactions of one sender appear in ascending nonce order and at most N  *)
(* are returned.  With A = v1 and B = v2 (nonce 0, RC 100), A0 and A1 of     *)
(* cost 5 and B0 of cost 10, SelectForBlock(3) is [B0, A0, A1].              *)
C22_SelectIsGreedy ==
    (last.op = "SelectForBlock" /\ last.err = "") =>
        LET pool == mempool.pool
            out == last.out.txs
            costOf(t) == CostBy(mempool.coster, contracts, t).cost
            hashOf(t) == HashString(HashTransaction(t))
            RECURSIVE Greedy(_, _, _, _)
            Greedy(nonce, rc, taken, n) ==
                LET head(a) == pool[a][taken[a] + 1]
                    heads == {a \in DOMAIN pool :
                                 /\ taken[a] < Len(pool[a])
                                 /\ head(a).Nonce = nonce[a]
                                 /\ rc[a] >= costOf(head(a))}
                    best == CHOOSE a \in heads : \A b \in heads \ {a} :
                                \/ costOf(head(a)) > costOf(head(b))
                                \/ /\ costOf(head(a)) = costOf(head(b))
                                   /\ hashOf(head(a)) < hashOf(head(b))
                IN IF n <= 0 \/ heads = {} THEN <<>>
                   ELSE <<head(best)>> \o
                        Greedy([nonce EXCEPT ![best] = @ + 1],
                               [rc EXCEPT ![best] = @ - costOf(head(best))],
                               [taken EXCEPT ![best] = @ + 1], n - 1)
            A0 == Transfer("v1", "v4", 1, 0)
            A1 == Transfer("v1", "v4", 1, 1)
            B0 == Transfer("v2", "v4", 1, 0)
        IN /\ out = Greedy([a \in DOMAIN pool |-> GetAccount(store.accounts, a).Nonce],
                           [a \in DOMAIN pool |-> GetAccount(store.accounts, a).RC],
                           [a \in DOMAIN pool |-> 0], last.arg.max)
           /\ Len(out) <= last.arg.max \/ (last.arg.max < 0 /\ out = <<>>)
           /\ \A i, j \in 1..Len(out) :
                 (i < j /\ out[i].From = out[j].From) => out[i].Nonce < out[j].Nonce
           /\ (/\ mempool.coster = "mockCoster"
               /\ pool = [a \in {"v1", "v2"} |-> IF a = "v1" THEN <<A0, A1>> ELSE <<B0>>]
               /\ last.arg.max = 3) => out = <<B0, A0, A1>>

\* C22 witness: the ordering test's pool, SelectForBlock(3) has returned
\* [B0, A0, A1].
C22_Witness ==
    /\ last.op = "SelectForBlock"
    /\ last.err = ""
    /\ last.arg.max = 3
    /\ mempool.coster = "mockCoster"
    /\ DOMAIN mempool.pool = {"v1", "v2"}
    /\ Len(mempool.pool["v1"]) = 2
    /\ Len(mempool.pool["v2"]) = 1
    /\ last.out.txs = <<Transfer("v2", "v4", 1, 0), Transfer("v1", "v4", 1, 0),
                        Transfer("v1", "v4", 1, 1)>>

-----------------------------------------------------------------------------
(* C23: SelectForBlock is a function of the pool and the accounts: whatever  *)
(* the order in which the senders are iterated, and whatever the order in    *)
(* which the transactions were added (every queue is in ascending nonce      *)
(* order), the returned list is the same, and the call changes neither the   *)
(* pool nor the accounts.                                                    *)
C23_SelectIsPure ==
    /\ \A a \in DOMAIN mempool.pool : \A i, j \in 1..Len(mempool.pool[a]) :
          i < j => mempool.pool[a][i].Nonce < mempool.pool[a][j].Nonce
    /\ last.op = "SelectForBlock" =>
          /\ mempool.pool = last.old.pool
          /\ store.accounts = last.old.accounts
          /\ \A order \in IterationOrders({a \in DOMAIN last.old.pool :
                                              Len(last.old.pool[a]) > 0}) :
                LET again == SelectForBlock([mempool EXCEPT !.pool = last.old.pool],
                                            last.old.accounts, contracts,
                                            last.arg.max, order)
                IN again.err = last.err /\ again.out = last.out.txs

\* C23 witness: three senders have queued transactions, and a call that
\* iterated them in descending order of address returned three transactions
\* of at least two senders.
C23_Witness ==
    /\ last.op = "SelectForBlock"
    /\ last.err = ""
    /\ Len(last.arg.order) = 3
    /\ last.arg.order[1] = "v3"
    /\ last.arg.order[3] = "v1"
    /\ Len(last.out.txs) = 3
    /\ last.out.txs[1].From # last.out.txs[3].From

-----------------------------------------------------------------------------
(* C24: AddTx admits a transaction exactly when from and to are non-empty,   *)
(* the payload decodes, the sender's key resolves and the signature          *)
(* verifies, tx.nonce >= the account's nonce, the account's RC covers the    *)
(* cost and the sender's queue holds no transaction of the same nonce; it    *)
(* then inserts the transaction into the sender's queue, and otherwise       *)
(* returns an error and leaves the pool unchanged.                           *)
C24_AddTxAdmission ==
    [][last'.op = "AddTx" =>
          LET txn == last'.arg.tx
              acct == GetAccount(store.accounts, txn.From)
              queue == QueueOf(mempool.pool, txn.From)
              carried == txn.Payload[6]
              key == IF acct.PubKey # None THEN acct.PubKey ELSE carried
              admissible ==
                 /\ txn.From # "" /\ txn.To # ""
                 /\ txn.Payload # <<>>
                 /\ key = PubKeyOf(txn.From)
                 /\ carried \in {None, key}
                 /\ txn.Signature = Sign(key, SigningBytes(txn))
                 /\ txn.Nonce >= acct.Nonce
                 /\ acct.RC >= CostBy(mempool.coster, contracts, txn).cost
                 /\ \A i \in 1..Len(queue) : queue[i].Nonce # txn.Nonce
          IN /\ (last'.err = "") <=> admissible
             /\ last'.err # "" => mempool' = mempool
             /\ last'.err = "" =>
                   /\ mempool'.coster = mempool.coster
                   /\ \A a \in DOMAIN mempool.pool \ {txn.From} :
                         mempool'.pool[a] = mempool.pool[a]
                   /\ DOMAIN mempool'.pool = DOMAIN mempool.pool \cup {txn.From}
                   /\ Len(mempool'.pool[txn.From]) = Len(queue) + 1
                   /\ {mempool'.pool[txn.From][i] : i \in 1..(Len(queue) + 1)}
                         = {queue[i] : i \in 1..Len(queue)} \cup {txn}]_vars

\* C24 witness: a transaction was admitted in front of a queued one of the
\* same sender, in a pool that holds another sender's transaction.
C24_Witness ==
    /\ last.op = "AddTx"
    /\ last.err = ""
    /\ Len(mempool.pool[last.arg.tx.From]) >= 2
    /\ mempool.pool[last.arg.tx.From][1] = last.arg.tx
    /\ Cardinality(DOMAIN mempool.pool) >= 2

\* C24 witness of a rejection: a transaction with a stale nonce was offered
\* to a pool that holds transactions, and was refused.
C24_WitnessStale ==
    /\ last.op = "AddTx"
    /\ last.err = "stale nonce"
    /\ DOMAIN mempool.pool # {}

-----------------------------------------------------------------------------
(* C25: EffectiveTime(t, window, max_skew) is t clamped to                   *)
(* [m - max_skew, m + max_skew], m being the median of the window (the lower *)
(* middle for an even count), and t itself for an empty window; for the      *)
(* window [100,101,102,103,104] and max_skew 5 it is 107 for 200, 97 for 90  *)
(* and 102 for 102.                                                          *)
C25_EffectiveTimeIsClamp ==
    last.op = "EffectiveTime" =>
        LET t == last.arg.t
            w == last.arg.window
            skew == last.arg.maxSkew
            n == Len(w)
            k == (n + 1) \div 2
            m == CHOOSE x \in {w[i] : i \in 1..n} :
                    /\ Cardinality({i \in 1..n : w[i] < x}) < k
                    /\ Cardinality({i \in 1..n : w[i] <= x}) >= k
            clamp == IF t < m - skew THEN m - skew
                     ELSE IF t > m + skew THEN m + skew ELSE t
        IN /\ n = 0 => last.out.time = t
           /\ n > 0 => last.out.time = clamp
           /\ (w = <<100, 101, 102, 103, 104>> /\ skew = 5) =>
                 /\ t = 200 => last.out.time = 107
                 /\ t = 90 => last.out.time = 97
                 /\ t = 102 => last.out.time = 102

-----------------------------------------------------------------------------
(* C26: Regen returns min(rc + max(0, t_new - t_last) * beta * stake,        *)
(* alpha * stake), every product and sum saturating at the largest unsigned  *)
(* value, so the regenerated RC never exceeds alpha * stake and never wraps; *)
(* for alpha = 10, beta = 2, stake = 5, rc = 0 and dt = 3 it returns rc 30   *)
(* with rc_max 50.                                                           *)
C26_RegenIsSaturatingMin ==
    last.op = "Regen" =>
        LET a == last.arg
            sat(x) == IF x > MaxUint THEN MaxUint ELSE x
            times(x, y) == IF x = 0 \/ y = 0 THEN 0
                           ELSE IF x > MaxUint \div y THEN MaxUint ELSE x * y
            dt == IF a.tNew - a.tLast < 0 THEN 0 ELSE a.tNew - a.tLast
            full == sat(a.rc + times(times(sat(dt), a.p.Beta), a.stake))
            cap == times(a.p.Alpha, a.stake)
        IN /\ last.out.regen.rc = (IF full < cap THEN full ELSE cap)
           /\ last.out.regen.rc <= cap
           /\ last.out.regen.time = a.tNew
           /\ last.out.rcMax = cap
           /\ (a.p = [Alpha |-> 10, Beta |-> 2] /\ a.stake = 5 /\ a.rc = 0
                 /\ a.tLast = 0 /\ a.tNew = 3) =>
                 (last.out.regen.rc = 30 /\ last.out.rcMax = 50)

-----------------------------------------------------------------------------
(* C27: a proposal returned by ProposeBlock holds a block at height + 1 with *)
(* prev_hash = the last finalized hash and state_root = the root PreviewBlock *)
(* computes for it on the current state, so that the block passes the state  *)
(* root check of ApplyBlock when it is finalized; ProposeBlock fails and     *)
(* returns no proposal when the local validator is not the leader.           *)
C27_ProposalCarriesPreviewRoot ==
    /\ last.op = "ProposeBlock" =>
          IF last.err = ""
          THEN /\ isProposerLocked
               /\ last.out.Block.Height = height + 1
               /\ last.out.Block.PrevHash = lastFinalized
               /\ PreviewBlock(store, last.out.Block, contracts).err = ""
               /\ last.out.Block.StateRoot =
                     PreviewBlock(store, last.out.Block, contracts).root
          ELSE ~isProposerLocked /\ last.out = None
    /\ (last.op = "FinalizeBlock" /\ last.arg.block.Proposer = validatorAddr) =>
          last.err # "state root mismatch"

-----------------------------------------------------------------------------
(* C28: the engine performs no network emission (BroadcastProposal,          *)
(* BroadcastPrecommit, BroadcastQC), no store I/O and no contract execution  *)
(* while it holds the BFT lock: in ProposeBlock, HandleProposal,             *)
(* HandlePrecommitVote and FinalizeBlock the lock has been released before   *)
(* the emission or the I/O begins, so a call that holds the lock has called  *)
(* out to none of them.                                                      *)
C28_NoEmissionUnderLock ==
    mu.holder \in {"ProposeBlock", "HandleProposal", "HandlePrecommitVote", "FinalizeBlock"}
        => mu.called = <<>>

-----------------------------------------------------------------------------
(* C29: after blocks 1..n have been applied in order the state DAG holds     *)
(* exactly one node per applied block (also when consecutive blocks leave    *)
(* the state root unchanged), the parents of every node after the first are  *)
(* state roots of earlier nodes, and the only tip is the node of block n.    *)
C29_OneNodePerBlock ==
    LET n == Cardinality(DOMAIN store.blockHeights)
        blockAt(h) == store.blocks[store.blockHeights[h]]
        nodes == {dag.nodes[r] : r \in DOMAIN dag.nodes}
        inOrder ==
            /\ DOMAIN store.blockHeights = 1..n
            /\ \A h \in 1..n :
                  /\ blockAt(h).Height = h
                  /\ blockAt(h).PrevHash =
                        IF h = 1 THEN ZeroHash ELSE store.blockHeights[h - 1]
    IN (n >= 1 /\ inOrder) =>
          /\ Cardinality(DOMAIN dag.nodes) = n
          /\ \A h \in 1..n :
                \E node \in nodes : node.Height = h /\ node.RootHash = blockAt(h).StateRoot
          /\ \A node \in nodes :
                node.Height > 1 =>
                   \A i \in 1..Len(node.Parents) :
                      \E earlier \in nodes : /\ earlier.RootHash = node.Parents[i]
                                             /\ earlier.Height < node.Height
          /\ dag.tips = <<blockAt(n).StateRoot>>

-----------------------------------------------------------------------------
(* C30: after a successful ApplyBlock the stored timestamp window is the     *)
(* previous window with the raw timestamp of the block appended, cut to its  *)
(* newest window_n entries: it is never longer than window_n and its last    *)
(* entry is the block's own timestamp, not the clamped effective time.  A    *)
(* failed ApplyBlock leaves the window as it was.                            *)
C30_WindowKeepsRawTimestamps ==
    [][last'.op = "ApplyBlock" =>
          LET old == store.lastTimestamps
              new == store'.lastTimestamps
              grown == old \o <<last'.arg.block.Timestamp>>
          IN IF last'.err = ""
             THEN /\ Len(new) = IF Len(grown) > WindowN THEN WindowN ELSE Len(grown)
                  /\ \A i \in 1..Len(new) : new[i] = grown[Len(grown) - Len(new) + i]
             ELSE new = old]_vars

\* C30: a second block is applied whose timestamp lies beyond the skew, so that
\* its effective time differs from it, and the full window drops its oldest
\* entry.
C30_Witness ==
    /\ last.op = "ApplyBlock"
    /\ last.err = ""
    /\ Cardinality(DOMAIN store.blocks) = 2
    /\ Len(store.lastTimestamps) = WindowN
    /\ store.lastTimestamps[WindowN] = last.arg.block.Timestamp
    /\ EffectiveTime(last.arg.block.Timestamp,
                     <<GenesisTime, store.lastTimestamps[1]>>, MaxSkewSec)
          # last.arg.block.Timestamp

\* C30: an ApplyBlock fails on a store that holds a block.
C30_WitnessFailed ==
    /\ last.op = "ApplyBlock"
    /\ last.err # ""
    /\ Cardinality(DOMAIN store.blocks) = 1

-----------------------------------------------------------------------------
(* C31: after PruneNonFinal(r) on a DAG built by AddNode calls the remaining *)
(* nodes are exactly the nodes reachable from r and the tips are exactly the *)
(* remaining nodes without a remaining child; and after any sequence of      *)
(* AddNode calls, in whatever order parents and children were inserted, the  *)
(* tips are exactly the nodes without children.                              *)
C31_TipsAreChildless ==
    LET childless(nodes) ==
            {h \in DOMAIN nodes :
                \A c \in DOMAIN nodes :
                   \A i \in 1..Len(nodes[c].Parents) : nodes[c].Parents[i] # h}
        tipSet == {dag.tips[i] : i \in 1..Len(dag.tips)}
        RECURSIVE reach(_, _)
        reach(nodes, set) ==
            LET next == set \cup {h \in DOMAIN nodes :
                                     \E i \in 1..Len(nodes[h].Parents) :
                                        nodes[h].Parents[i] \in set}
            IN IF next = set THEN set ELSE reach(nodes, next)
    IN /\ last.op = "AddNode" => tipSet = childless(dag.nodes)
       /\ (last.op = "PruneNonFinal" /\ last.old.prunes = 0) =>
             /\ DOMAIN dag.nodes =
                   DOMAIN last.old.dag.nodes
                      \cap reach(last.old.dag.nodes, {last.arg.finalRoot})
             /\ tipSet = childless(dag.nodes)

-----------------------------------------------------------------------------
(* C32: after every successful FinalizeBlock the consensus checkpoint kept   *)
(* in the store (height, round, last finalized hash) equals the height, the  *)
(* round and the last finalized hash of the engine.                          *)
C32_CheckpointFollowsFinalization ==
    (last.op = "FinalizeBlock" /\ last.err = "") =>
        GetConsensusState(store) =
            [height |-> height, round |-> round, lastFinalized |-> lastFinalized]

-----------------------------------------------------------------------------
(* C33: the validator-set snapshot of the engine changes only in a           *)
(* successful FinalizeBlock: a RegisterValidator, Delegate, Undelegate or    *)
(* slash call on the registry changes neither the leader the engine expects  *)
(* nor the powers and the total power of the snapshot.                       *)
C33_SnapshotChangesOnlyAtFinalize ==
    [][/\ last'.op \in {"RegisterValidator", "Delegate", "Undelegate", "SlashDoubleSign",
                       "SlashOffline"} =>
             /\ validatorSet' = validatorSet
             /\ \A a \in Addresses :
                   isExpectedProposerLocked(a)' = isExpectedProposerLocked(a)
       /\ validatorSet' # validatorSet => (last'.op = "FinalizeBlock" /\ last'.err = "")]_vars

\* C33: a call on the registry has moved the leader the registry would give
\* away from the one the engine expects.
C33_Witness ==
    /\ last.op \in {"RegisterValidator", "Delegate", "Undelegate", "SlashDoubleSign",
                    "SlashOffline"}
    /\ last.err = ""
    /\ ValidatorSet(dpos).TotalPower # validatorSet.TotalPower
    /\ \E a \in Addresses :
          isExpectedProposerLocked(a) /\ ~isExpectedProposer(ValidatorSet(dpos), height, round, a)

-----------------------------------------------------------------------------
(* C34: FinalizeBlock succeeds only for a block whose height is height + 1   *)
(* and whose prev_hash is the last finalized hash, so the height never       *)
(* decreases and never skips a value.                                        *)
C34_HeightAdvancesByOne ==
    [][/\ height' \in {height, height + 1}
       /\ (last'.op = "FinalizeBlock" /\ last'.err = "") =>
             /\ last'.arg.block.Height = height + 1
             /\ last'.arg.block.PrevHash = lastFinalized
             /\ height' = height + 1]_vars

-----------------------------------------------------------------------------
(* C35: FinalizeBlock applies the block and advances the height only if the  *)
(* QC is for the hash and the height of that block, passes the signature     *)
(* check against the current snapshot, and the validators its bitmap names   *)
(* hold more than 2/3 of the total power; a QC with an empty bitmap, too     *)
(* little power or bad signatures finalizes nothing.                         *)
C35_FinalizeNeedsQuorum ==
    [][(last'.op = "FinalizeBlock" /\ last'.err = "") =>
          LET qc == last'.arg.qc
              block == last'.arg.block
              n == NumValidators(validatorSet)
              signers == {i \in 1..n : BitSet(qc.SigBitmap, i - 1)}
              signedPower == SumFun([i \in signers |-> validatorSet.Validators[i].Power],
                                    signers)
          IN /\ qc.BlockHash = HashBlock(block)
             /\ qc.Height = block.Height
             /\ VerifyQC(qc, validatorSet) = ""
             /\ signedPower * 3 > validatorSet.TotalPower * 2]_vars

-----------------------------------------------------------------------------
(* C36: a replica never equivocates: the precommit votes it signs in         *)
(* HandleProposal for one (height, round) are all for the same block hash,   *)
(* so a second, different valid proposal of the leader of that (height,      *)
(* round) gets no vote.  Stated for two HandleProposal calls in a row.       *)
C36_NoEquivocation ==
    [][(/\ last.op = "HandleProposal" /\ last.err = ""
        /\ last'.op = "HandleProposal" /\ last'.err = ""
        /\ last'.out.Height = last.out.Height
        /\ last'.out.Round = last.out.Round)
          => last'.out.BlockHash = last.out.BlockHash]_vars

-----------------------------------------------------------------------------
(* C37: every QC returned by HandlePrecommitVote passes VerifyQC against the *)
(* snapshot it was built from, whatever the interleaving with OnTimeout and  *)
(* HandleViewChange: the round of the QC is the round each included          *)
(* signature was made over, also for votes signed in an earlier round than   *)
(* the engine's or in different rounds.                                      *)
C37_BuiltQCVerifies ==
    (last.op = "HandlePrecommitVote" /\ last.err = "" /\ last.out # None) =>
        /\ VerifyQC(last.out, validatorSet) = ""
        /\ \A a \in DOMAIN votes[last.out.BlockHash] :
              a \in DOMAIN validatorSet.IndexByAddr =>
                 votes[last.out.BlockHash][a].Round = last.out.Round

-----------------------------------------------------------------------------
(* C38: no head-of-line blocking: when a sender has pooled the transactions  *)
(* with nonces n and n + 1 and the one with nonce n has been finalized (the  *)
(* account's nonce is n + 1), a SelectForBlock with room and enough RC       *)
(* selects the transaction with nonce n + 1 and does not return the          *)
(* finalized one.                                                            *)
C38_NoHeadOfLineBlocking ==
    (/\ last.op = "SelectForBlock"
     /\ last.arg.max >= 1
     /\ last.old.pool = mempool.pool
     /\ last.old.accounts = store.accounts
     /\ "v1" \in DOMAIN mempool.pool) =>
        LET queue == mempool.pool["v1"]
            acct == store.accounts["v1"]
            out == last.out.txs
            finalized == {t \in UNION {{b.Transactions[i] : i \in 1..Len(b.Transactions)} :
                                       b \in StoredBlocks} : t.From = "v1"}
        IN \A i, j \in 1..Len(queue) :
              (/\ queue[i] \in finalized
               /\ queue[j].Nonce = queue[i].Nonce + 1
               /\ queue[j].Nonce = acct.Nonce
               /\ acct.RC >= CostBy(mempool.coster, contracts, queue[j]).cost) =>
                  /\ \E k \in 1..Len(out) : out[k] = queue[j]
                  /\ \A k \in 1..Len(out) : out[k] # queue[i]

\* C39: the cost the coster computes for a transaction is the RC that
\* applyTransactionWithKV takes from the sender when it applies the
\* transaction on the same state, for every payload variant.
C39_AdmissionCostIsAppliedCost ==
    (last.op = "Cost" /\ last.err = "" /\ last.out.costErr = "")
        => last.out.charged = last.out.cost

\* C40: no applied block moves the last RC time of an account backwards, also
\* when its effective time is lower than that of the block before it.
C40_LastRCTimeNeverDecreases ==
    [][\A a \in DOMAIN store.accounts :
          a \in DOMAIN store'.accounts
          /\ store'.accounts[a].LastRCEffectiveTime
                >= store.accounts[a].LastRCEffectiveTime]_vars

====
